---------------------------- MODULE Spec2Model ----------------------------
(***************************************************************************)
(* A model of megamatch: the FIFO caches (src/cache.ts), the pattern       *)
(* parser and validator (src/runtime/parser.ts, checker), the interpretive *)
(* matcher (src/runtime/match.ts) and the JIT compiler                     *)
(* (src/runtime/compile.ts).                                               *)
(*                                                                         *)
(* Strings are sequences of one-character strings, so that startsWith,     *)
(* slice, endsWith and join are computed as the code computes them.        *)
(***************************************************************************)
EXTENDS Integers, Sequences, FiniteSets, TLC

VARIABLES
    cache,      \* one Cache<string, V> instance driven through its own interface
    cHung,      \* TRUE once a call on `cache` entered a loop that never exits
    cLast,      \* the last call made on `cache` and what it returned
    cHist,      \* the keys passed to Cache.set / sizes passed to the maxSize setter, in order
    caches,     \* _caches: the parse, compile and match caches of the library
    hung,       \* TRUE once a library call entered a loop that never exits
    matcher,    \* the matcher the last successful compile() returned, with its cases
    last,       \* the last library call: operation, argument, outcome
    seen,       \* per pattern: the node the last direct parsePattern call returned,
                \* and whether its cache entry has stayed in the parse cache since
    threw,      \* per compilation: what the last compile() of it threw, if it threw
    nOps,       \* number of library calls made
    trial,      \* one cases object (as declared) and one value handed to the entry points
    ran,        \* per entry point: what it did with the trial, once it has run
    heap,       \* the objects a rejected value is made of, by identity
    input,      \* the rejected value handed to NonExhaustiveError
    shown       \* the message of the NonExhaustiveError constructed for `input`

cvars == <<cache, cHung, cLast, cHist>>

pvars == <<caches, hung, matcher, last, seen, threw, nOps>>

mvars == <<trial, ran>>

svars == <<heap, input, shown>>

vars == <<cache, cHung, cLast, cHist, caches, hung, matcher, last, seen, threw, nOps, trial, ran,
          heap, input, shown>>

(***************************************************************************)
(* Bounds of the model.                                                    *)
(***************************************************************************)
MaxCap == 2          \* capacities and limits range over 0..MaxCap
MaxCacheOps == 4     \* number of set / maxSize calls made on the unit cache
MaxOps == 3          \* number of library calls in a run of the program

(***************************************************************************)
(* Generic helpers.                                                        *)
(***************************************************************************)
Range(s) == {s[i] : i \in 1..Len(s)}

(***************************************************************************)
(* lib/parser/runtime: the parser combinators.  A parser maps the          *)
(* remaining input to { success: false } or { success, data, rest }.       *)
(***************************************************************************)
Fail == [ok |-> FALSE, data |-> <<>>, rest |-> <<>>]
Ok(d, r) == [ok |-> TRUE, data |-> d, rest |-> r]

Drop(s, n) == SubSeq(s, n + 1, Len(s))
StartsWith(s, p) == Len(s) >= Len(p) /\ SubSeq(s, 1, Len(p)) = p
EndsWith(s, p) == Len(s) >= Len(p) /\ SubSeq(s, Len(s) - Len(p) + 1, Len(s)) = p

uppers == {"A", "B", "C", "D", "E", "F", "G", "H", "I", "J", "K", "L", "M",
           "N", "O", "P", "Q", "R", "S", "T", "U", "V", "W", "X", "Y", "Z"}
lowers == {"a", "b", "c", "d", "e", "f", "g", "h", "i", "j", "k", "l", "m",
           "n", "o", "p", "q", "r", "s", "t", "u", "v", "w", "x", "y", "z"}
letters == uppers \cup lowers
nonZeroDigits == {"1", "2", "3", "4", "5", "6", "7", "8", "9"}
digits == {"0"} \cup nonZeroDigits
whitespaces == {" ", "\t", "\n", "\r"}
IdentChars == letters \cup digits \cup {"_", "$"}

\* just(str)
Just(str, s) == IF StartsWith(s, str) THEN Ok(str, Drop(s, Len(str))) ELSE Fail

\* justAs(str, as)
JustAs(str, as, s) == IF StartsWith(s, str) THEN Ok(as, Drop(s, Len(str))) ELSE Fail

\* oneOf(chars)
OneOf(chars, s) == IF s # <<>> /\ s[1] \in chars THEN Ok(<<s[1]>>, Tail(s)) ELSE Fail

\* anyChar
AnyChar(s) == IF s # <<>> THEN Ok(s[1], Tail(s)) ELSE Fail

\* The result r of parsing the rest, with the element x put in front.
Cons(x, r) == Ok(<<x>> \o r.data, r.rest)

\* or(a, b) on the two results: the first success wins.
OrElse(a, b) == IF a.ok THEN a ELSE b

\* map(parser, v => [type, v]) on a result.
Tagged(type, r) == IF r.ok THEN Ok(<<type, r.data>>, r.rest) ELSE Fail

\* manyChar(chars) = join(many(oneOf(chars)))
RECURSIVE ManyChar(_, _)
ManyChar(chars, s) ==
    IF s # <<>> /\ s[1] \in chars THEN Cons(s[1], ManyChar(chars, Tail(s))) ELSE Ok(<<>>, s)

\* space = many(spaceChar), data dropped
Space(s) == Ok(<<>>, ManyChar(whitespaces, s).rest)

\* symbol(str) = right(space, just(str))
Symbol(str, s) == Just(str, Space(s).rest)

\* charLiteral: a backslash escape, or any character.  "BS" and "FF" stand
\* for the characters U+0008 and U+000C.  A backslash that ends the input
\* is taken as an ordinary character.
CharLiteral(s) ==
    IF StartsWith(s, <<"\\">>) /\ Len(s) >= 2
    THEN Ok(CASE s[2] = "b" -> "BS"
              [] s[2] = "f" -> "FF"
              [] s[2] = "n" -> "\n"
              [] s[2] = "r" -> "\r"
              [] s[2] = "t" -> "\t"
              [] OTHER -> s[2], Drop(s, 2))
    ELSE AnyChar(s)

\* manyTill(charLiteral, just(quote)): the element parser runs first, the
\* end parser is only tried after an element was consumed.  ManyTillNext
\* is the loop body once the element result c is known.
RECURSIVE ManyTillQuote(_, _), ManyTillNext(_, _, _)
ManyTillNext(quote, s, c) ==
    IF ~c.ok THEN Ok(<<>>, s)
    ELSE IF StartsWith(c.rest, quote) THEN Ok(<<c.data>>, c.rest)
    ELSE Cons(c.data, ManyTillQuote(quote, c.rest))

ManyTillQuote(quote, s) == ManyTillNext(quote, s, CharLiteral(s))

\* stringLiteral(quote) = between(just(quote), just(quote), join(manyTill(...)))
\* StringLiteralClose is the closing just(quote) after the body.
StringLiteralClose(quote, body) ==
    IF StartsWith(body.rest, quote) THEN Ok(body.data, Drop(body.rest, Len(quote))) ELSE Fail

StringLiteral(quote, s) ==
    IF StartsWith(s, quote)
    THEN StringLiteralClose(quote, ManyTillQuote(quote, Drop(s, Len(quote))))
    ELSE Fail

\* or(just("0"), join(pair(nonZeroDigitChar, join(many(digitChar)))))
DecimalText(s) ==
    IF StartsWith(s, <<"0">>) THEN Ok(<<"0">>, Tail(s))
    ELSE IF s # <<>> /\ s[1] \in nonZeroDigits
         THEN Cons(s[1], ManyChar(digits, Tail(s)))
         ELSE Fail

\* The text float() hands to Number(): integer part and optional fraction.
\* FloatFraction is the optional(pair(just("."), digits)) after the integer.
FloatFraction(int, frac) ==
    IF frac.data # <<>> THEN Ok(int.data \o <<".">> \o frac.data, frac.rest) ELSE int

FloatAfterInt(int) ==
    IF ~int.ok THEN Fail
    ELSE IF StartsWith(int.rest, <<".">>)
         THEN FloatFraction(int, ManyChar(digits, Tail(int.rest)))
         ELSE int

FloatText(s) == FloatAfterInt(DecimalText(s))

RECURSIVE StripTrailingZeros(_)
StripTrailingZeros(t) ==
    IF t # <<>> /\ t[Len(t)] = "0" THEN StripTrailingZeros(SubSeq(t, 1, Len(t) - 1)) ELSE t

\* Number(str) for the texts float() produces, kept as the shortest decimal
\* text of the magnitude ("1.50" and "1.5" are the same number).
NumberOfText(t) ==
    LET dotAt == {i \in 1..Len(t) : t[i] = "."}
    IN  IF dotAt = {} THEN t
        ELSE LET i == CHOOSE j \in dotAt : TRUE
                 frac == StripTrailingZeros(SubSeq(t, i + 1, Len(t)))
             IN  IF frac = <<>> THEN SubSeq(t, 1, i - 1)
                 ELSE SubSeq(t, 1, i - 1) \o <<".">> \o frac

\* JavaScript values.
Undefined == <<"undefined">>
Null == <<"null">>
Bool(b) == <<"bool", b>>
Num(neg, mag) == <<"num", neg, mag>>
BigInt(neg, mag) == <<"bigint", neg, mag>>
Str(chars) == <<"str", chars>>
Arr(elems) == <<"arr", elems>>
Obj(cls, entries) == <<"obj", cls, entries>>

\* signed(parser): optional(left(oneOf("+-"), space)), sign defaults to "+".
SignOf(s) ==
    IF s # <<>> /\ s[1] \in {"+", "-"} THEN Ok(s[1], Space(Tail(s)).rest) ELSE Ok("+", s)

\* signed(float): ([sign, n]) => sign === "-" ? -n : n  (so "-0" is -0)
SignedNumber(sign, f) ==
    IF f.ok THEN Ok(Num(sign = "-", NumberOfText(f.data)), f.rest) ELSE Fail

SignedFloat(s) == SignedNumber(SignOf(s).data, FloatText(SignOf(s).rest))

\* signed(decimalBigInt): -0n is 0n
SignedBigIntOf(sign, d) ==
    IF d.ok THEN Ok(BigInt(sign = "-" /\ d.data # <<"0">>, d.data), d.rest) ELSE Fail

SignedBigInt(s) == SignedBigIntOf(SignOf(s).data, DecimalText(SignOf(s).rest))

(***************************************************************************)
(* src/runtime/parser.ts: the pattern grammar.  A Node is a tuple whose    *)
(* first element is its type, as in src/types.ts.                          *)
(***************************************************************************)
validUpperBounds ==
    << "string", "number", "boolean", "symbol", "bigint", "function", "object",
       "nonNullable", "Date", "RegExp", "Error", "ArrayBuffer", "Array", "Map",
       "Set", "WeakMap", "WeakSet", "Promise", "TypedArray", "DataView" >>

\* The characters of each reserved typed-wildcard name.
UpperBoundText(type) ==
    CASE type = "string" -> <<"s", "t", "r", "i", "n", "g">>
      [] type = "number" -> <<"n", "u", "m", "b", "e", "r">>
      [] type = "boolean" -> <<"b", "o", "o", "l", "e", "a", "n">>
      [] type = "symbol" -> <<"s", "y", "m", "b", "o", "l">>
      [] type = "bigint" -> <<"b", "i", "g", "i", "n", "t">>
      [] type = "function" -> <<"f", "u", "n", "c", "t", "i", "o", "n">>
      [] type = "object" -> <<"o", "b", "j", "e", "c", "t">>
      [] type = "nonNullable" -> <<"n", "o", "n", "N", "u", "l", "l", "a", "b", "l", "e">>
      [] type = "Date" -> <<"D", "a", "t", "e">>
      [] type = "RegExp" -> <<"R", "e", "g", "E", "x", "p">>
      [] type = "Error" -> <<"E", "r", "r", "o", "r">>
      [] type = "ArrayBuffer" -> <<"A", "r", "r", "a", "y", "B", "u", "f", "f", "e", "r">>
      [] type = "Array" -> <<"A", "r", "r", "a", "y">>
      [] type = "Map" -> <<"M", "a", "p">>
      [] type = "Set" -> <<"S", "e", "t">>
      [] type = "WeakMap" -> <<"W", "e", "a", "k", "M", "a", "p">>
      [] type = "WeakSet" -> <<"W", "e", "a", "k", "S", "e", "t">>
      [] type = "Promise" -> <<"P", "r", "o", "m", "i", "s", "e">>
      [] type = "TypedArray" -> <<"T", "y", "p", "e", "d", "A", "r", "r", "a", "y">>
      [] type = "DataView" -> <<"D", "a", "t", "a", "V", "i", "e", "w">>

\* type.includes("Spread") / type.includes("Arg") on a node type.
IncludesSpread(type) == type \in {"UnnamedSpreadArg", "NamedSpreadArg", "WildcardSpread"}
IncludesArg(type) == type \in {"UnnamedArg", "NamedArg", "UnnamedSpreadArg", "NamedSpreadArg"}

\* keywordAs(str, notFollowedBy, as): the keyword, not followed by one of
\* the given characters.
KeywordAs(str, notFollowedBy, as, s) ==
    IF StartsWith(s, str) /\ ~(Len(s) > Len(str) /\ s[Len(str) + 1] \in notFollowedBy)
    THEN Ok(as, Drop(s, Len(str)))
    ELSE Fail

\* choice(validUpperBounds.map(type => keywordAs(type, letters + "(", ...)))
RECURSIVE UpperBoundChoice(_, _)
UpperBoundChoice(i, s) ==
    IF i > Len(validUpperBounds) THEN Fail
    ELSE OrElse(KeywordAs(UpperBoundText(validUpperBounds[i]), letters \cup {"("},
                          <<"Wildcard", validUpperBounds[i]>>, s),
                UpperBoundChoice(i + 1, s))

wildcardParser(s) ==
    OrElse(JustAs(<<"*">>, <<"Wildcard", "unknown">>, s), UpperBoundChoice(1, s))

nullLiteralParser(s) == JustAs(<<"n", "u", "l", "l">>, <<"NullLiteral">>, s)

undefinedLiteralParser(s) ==
    JustAs(<<"u", "n", "d", "e", "f", "i", "n", "e", "d">>, <<"UndefinedLiteral">>, s)

booleanLiteralParser(s) ==
    OrElse(JustAs(<<"t", "r", "u", "e">>, <<"BooleanLiteral", TRUE>>, s),
           JustAs(<<"f", "a", "l", "s", "e">>, <<"BooleanLiteral", FALSE>>, s))

\* map(left(signed(decimalBigInt), just("n")), v => ["BigIntLiteral", v]);
\* BigIntSuffix is the just("n") after the digits.
BigIntSuffix(v) ==
    IF v.ok /\ StartsWith(v.rest, <<"n">>)
    THEN Ok(<<"BigIntLiteral", v.data>>, Tail(v.rest))
    ELSE Fail

bigintLiteralParser(s) == BigIntSuffix(SignedBigInt(s))

numberLiteralParser(s) == Tagged("NumberLiteral", SignedFloat(s))

stringLiteralParser(s) ==
    Tagged("StringLiteral", OrElse(StringLiteral(<<"'">>, s), StringLiteral(<<"\"">>, s)))

\* join(pair(oneOf(first), manyChar(letters + digits + "_$")))
IdentifierFrom(first, s) ==
    IF s # <<>> /\ s[1] \in first THEN Cons(s[1], ManyChar(IdentChars, Tail(s))) ELSE Fail

identifierParser(s) == IdentifierFrom(letters \cup {"_", "$"}, s)

lowerIdentifierParser(s) == IdentifierFrom(lowers \cup {"_", "$"}, s)

\* or(just("...*"), just("..."))
wildcardSpreadParser(s) ==
    OrElse(JustAs(<<".", ".", ".", "*">>, <<"WildcardSpread">>, s),
           JustAs(<<".", ".", ".">>, <<"WildcardSpread">>, s))

unnamedArgParser(s) == JustAs(<<"_">>, <<"UnnamedArg">>, s)

unnamedSpreadArgParser(s) == JustAs(<<".", ".", ".", "_">>, <<"UnnamedSpreadArg">>, s)

namedArgParser(s) == Tagged("NamedArg", lowerIdentifierParser(s))

\* join(pair(right(just("..."), oneOf(lowers + "_$")), manyChar(...)))
namedSpreadArgParser(s) ==
    IF StartsWith(s, <<".", ".", ".">>)
    THEN Tagged("NamedSpreadArg", lowerIdentifierParser(Drop(s, 3)))
    ELSE Fail

adtTagParser(s) == IdentifierFrom(uppers, s)

\* `_${i}`: the decimal text of a field index.
RECURSIVE NatText(_)
NatText(n) ==
    LET d == <<"0", "1", "2", "3", "4", "5", "6", "7", "8", "9">>
    IN  IF n < 10 THEN <<d[n + 1]>> ELSE NatText(n \div 10) \o <<d[(n % 10) + 1]>>

\* The symbolAs("|", ...) fold of orParser.
OrFold(acc, node) ==
    IF acc[1] = "Or" THEN <<"Or", Append(acc[2], node)>> ELSE <<"Or", <<acc, node>>>>

\* A closing symbol after a bracketed list: [type, elements] on success.
Closed(type, close, body) ==
    IF Symbol(close, body.rest).ok
    THEN Ok(<<type, body.data>>, Symbol(close, body.rest).rest)
    ELSE Fail

\* The node of Tag(p1, p2, ...): { _tag: 'Tag', _0: p1, _1: p2, ... }
AdtNode(tag, fs, rest) ==
    Ok(<<"Object",
         <<<<<<"_", "t", "a", "g">>, <<"StringLiteral", tag>>>>>>
           \o [i \in 1..Len(fs) |-> <<<<"_">> \o NatText(i - 1), fs[i]>>]>>,
       rest)

\* The shorthand entry { name }.
Shorthand(sh) == IF sh.ok THEN Ok(<<sh.data, <<"NamedArg", sh.data>>>>, sh.rest) ELSE Fail

\* The entry ...name of an object pattern.
NamedRest(ns) ==
    IF ns.ok
    THEN Ok(<<<<".", ".", ".">> \o ns.data, <<"NamedSpreadArg", ns.data>>>>, ns.rest)
    ELSE Fail

\* optional "?" after an identifier key.
OptionalKey(id) ==
    IF id.ok /\ Symbol(<<"?">>, id.rest).ok
    THEN Ok(id.data \o <<"?">>, Symbol(<<"?">>, id.rest).rest)
    ELSE id

\* left(lexeme(choice(['..', "..", ident?, ident])), symbol(":"))
KeyColon(key) ==
    IF key.ok /\ Symbol(<<":">>, key.rest).ok
    THEN Ok(key.data, Symbol(<<":">>, key.rest).rest)
    ELSE Fail

objectKeyName(s) ==
    OrElse(StringLiteral(<<"'">>, s),
           OrElse(StringLiteral(<<"\"">>, s), OptionalKey(identifierParser(s))))

objectKeyParser(s) == KeyColon(objectKeyName(Space(s).rest))

\* The alternatives of an object entry other than key: pattern, on the
\* input after leading space: name | ..._ | ...name
ObjectShorthand(s) ==
    OrElse(Shorthand(identifierParser(s)),
           OrElse(JustAs(<<".", ".", ".", "_">>,
                         <<<<".", ".", ".", "_">>, <<"UnnamedSpreadArg">>>>, s),
                  IF StartsWith(s, <<".", ".", ".">>)
                  THEN NamedRest(lowerIdentifierParser(Space(Drop(s, 3)).rest))
                  ELSE Fail))

\* pair(orParser, ...) of the alias parsers, on the orParser result o:
\*   left(orParser, pair(symbol("as"), symbol("_")))           -> UnnamedArg
\*   pair(orParser, right(symbol("as"), lexeme(lowerIdent)))   -> NamedArg
UnnamedAlias(o, us) == IF us.ok THEN Ok(<<"UnnamedArg", o.data>>, us.rest) ELSE Fail

NamedAlias(o, nm) == IF nm.ok THEN Ok(<<"NamedArg", nm.data, o.data>>, nm.rest) ELSE Fail

AliasAfterAs(o, as) ==
    IF ~as.ok THEN o
    ELSE OrElse(UnnamedAlias(o, Symbol(<<"_">>, as.rest)),
                OrElse(NamedAlias(o, lowerIdentifierParser(Space(as.rest).rest)), o))

AliasAfterOr(o) == IF o.ok THEN AliasAfterAs(o, Symbol(<<"a", "s">>, o.rest)) ELSE Fail

\* An entry key: pattern, on the results of the key and of the pattern.
KeyValue(key, val) == IF val.ok THEN Ok(<<key.data, val.data>>, val.rest) ELSE Fail

RECURSIVE orParser(_), ChainL1Rest(_, _), ChainL1Op(_, _, _), ChainL1Term(_, _, _),
          ChainL1First(_), commonChoice(_), AliasChoice(_),
          adtParser(_), AdtTag(_), AdtOpen(_, _), AdtClose(_, _),
          tupleParser(_), objectParser(_),
          SepBy(_, _), SepByElem(_, _, _), SepBySep(_, _, _),
          TupleElement(_), ObjectEntry(_), ObjectKeyValue(_)

\* chainL1(lexeme(choice(commonParsers())), symbolAs("|", ...)).
\* The loop of chainL1: parse op, move past it, parse a term; on a failed
\* term it breaks with `current` already moved past the operator.
ChainL1Term(acc, op, term) ==
    IF term.ok THEN ChainL1Rest(OrFold(acc, term.data), term.rest) ELSE Ok(acc, op.rest)

ChainL1Op(acc, current, op) ==
    IF op.ok THEN ChainL1Term(acc, op, commonChoice(Space(op.rest).rest))
    ELSE Ok(acc, current)

ChainL1Rest(acc, current) == ChainL1Op(acc, current, Symbol(<<"|">>, current))

ChainL1First(term) == IF term.ok THEN ChainL1Rest(term.data, term.rest) ELSE Fail

orParser(s) == ChainL1First(commonChoice(Space(s).rest))

\* choice(commonParsers()): the first parser that succeeds wins.
commonChoice(s) ==
    OrElse(OrElse(OrElse(nullLiteralParser(s), undefinedLiteralParser(s)),
                  OrElse(booleanLiteralParser(s), bigintLiteralParser(s))),
           OrElse(OrElse(OrElse(numberLiteralParser(s), stringLiteralParser(s)),
                         OrElse(wildcardParser(s), unnamedArgParser(s))),
                  OrElse(OrElse(namedArgParser(s), adtParser(s)),
                         OrElse(tupleParser(s), objectParser(s)))))

\* choice([unnamedOrAliasParser, namedOrAliasParser, orParser]).  The three
\* alternatives start with the same deterministic orParser, so it is run
\* once here and the alternatives differ in what follows it.
AliasChoice(s) == AliasAfterOr(orParser(s))

\* sepBy(parser, sep): `kind` selects the element parser.  SepByElem and
\* SepBySep are the loop after the element and after the separator.
SepBySep(kind, r, sep) ==
    IF sep.ok THEN Cons(r.data, SepBy(kind, sep.rest)) ELSE Ok(<<r.data>>, r.rest)

SepByElem(kind, s, r) ==
    IF r.ok THEN SepBySep(kind, r, Symbol(<<",">>, r.rest)) ELSE Ok(<<>>, s)

SepBy(kind, s) ==
    SepByElem(kind, s, CASE kind = "tuple" -> TupleElement(Space(s).rest)
                         [] kind = "object" -> ObjectEntry(s)
                         [] kind = "adt" -> orParser(s))

\* Tag or Tag(p1, p2, ...): sugar for { _tag: 'Tag', _0: p1, _1: p2, ... }
AdtClose(tag, fields) ==
    IF Symbol(<<")">>, fields.rest).ok
    THEN AdtNode(tag.data, fields.data, Symbol(<<")">>, fields.rest).rest)
    ELSE AdtNode(tag.data, <<>>, tag.rest)

AdtOpen(tag, open) ==
    IF open.ok THEN AdtClose(tag, SepBy("adt", open.rest))
    ELSE AdtNode(tag.data, <<>>, tag.rest)

AdtTag(tag) == IF tag.ok THEN AdtOpen(tag, Symbol(<<"(">>, tag.rest)) ELSE Fail

adtParser(s) == AdtTag(adtTagParser(s))

\* lexeme(choice([unnamedOrAlias, namedOrAlias, orParser, ..._, ...name, ...]))
\* on the input after leading space.
TupleElement(s) ==
    OrElse(OrElse(AliasChoice(s), unnamedSpreadArgParser(s)),
           OrElse(namedSpreadArgParser(s), wildcardSpreadParser(s)))

tupleParser(s) ==
    IF Symbol(<<"[">>, s).ok
    THEN Closed("Tuple", <<"]">>, SepBy("tuple", Symbol(<<"[">>, s).rest))
    ELSE Fail

\* One entry of an object pattern: key: pattern | shorthand | ..._ | ...name
ObjectKeyValue(key) == IF key.ok THEN KeyValue(key, AliasChoice(key.rest)) ELSE Fail

ObjectEntry(s) == OrElse(ObjectKeyValue(objectKeyParser(s)), ObjectShorthand(Space(s).rest))

objectParser(s) ==
    IF Symbol(<<"{">>, s).ok
    THEN Closed("Object", <<"}">>, SepBy("object", Symbol(<<"{">>, s).rest))
    ELSE Fail

(***************************************************************************)
(* runtime/checker: checkNode, the validator run on a freshly parsed AST.  *)
(* It returns "ok" or the message of the Error it throws.                  *)
(***************************************************************************)
RECURSIVE checkNode(_), CheckEach(_, _)

\* for (const element of elements) checkNode(element): the first throw wins.
CheckEach(nodes, i) ==
    IF i > Len(nodes) THEN "ok"
    ELSE LET r == checkNode(nodes[i])
         IN  IF r # "ok" THEN r ELSE CheckEach(nodes, i + 1)

checkNode(node) ==
    LET type == node[1]
    IN  IF type = "Tuple"
        THEN IF Cardinality({i \in 1..Len(node[2]) : IncludesSpread(node[2][i][1])}) > 1
             THEN "Tuple pattern cannot have more than one spread argument"
             ELSE CheckEach(node[2], 1)
        ELSE IF type = "Object"
        THEN IF Cardinality({i \in 1..Len(node[2]) : IncludesSpread(node[2][i][2][1])}) > 1
             THEN "Object pattern cannot have more than one spread argument"
             ELSE CheckEach([i \in 1..Len(node[2]) |-> node[2][i][2]], 1)
        ELSE IF type = "Or"
        THEN IF \E i \in 1..Len(node[2]) : IncludesArg(node[2][i][1])
             THEN "Cannot use arguments in an or pattern"
             ELSE CheckEach(node[2], 1)
        ELSE "ok"

(***************************************************************************)
(* JavaScript values and the operations the matcher applies to them.       *)
(*   <<"undefined">>, <<"null">>, <<"bool", b>>, <<"num", neg, mag>>,      *)
(*   <<"bigint", neg, mag>>, <<"str", chars>>, <<"arr", elems>>,           *)
(*   <<"obj", class, entries>> with entries the own enumerable properties  *)
(*   <<key, value>> in enumeration order, <<"fn", entries>> a function.    *)
(* Inherited properties other than an array's or a string's `length` are   *)
(* outside the model.                                                      *)
(***************************************************************************)
TypeOf(v) ==
    CASE v[1] = "undefined" -> "undefined"
      [] v[1] = "bool" -> "boolean"
      [] v[1] = "num" -> "number"
      [] v[1] = "bigint" -> "bigint"
      [] v[1] = "str" -> "string"
      [] v[1] = "fn" -> "function"
      [] OTHER -> "object"

IsArray(v) == v[1] = "arr"

\* value !== null && (typeof value === "object" || typeof value === "function")
IsObjectLike(v) == v[1] \in {"arr", "obj", "fn"}

lengthKey == <<"l", "e", "n", "g", "t", "h">>
protoKey == <<"_", "_", "p", "r", "o", "t", "o", "_", "_">>
tagKey == <<"_", "t", "a", "g">>

\* The own enumerable string-keyed properties, in Reflect.ownKeys order.
OwnEntries(v) ==
    CASE v[1] = "obj" -> v[3]
      [] v[1] = "fn" -> v[2]
      [] v[1] = "arr" -> [i \in 1..Len(v[2]) |-> <<NatText(i - 1), v[2][i]>>]
      [] OTHER -> <<>>

EntryIndex(entries, key) == {i \in 1..Len(entries) : entries[i][1] = key}

\* key in value, for an object-like value
HasProp(v, key) ==
    \/ EntryIndex(OwnEntries(v), key) # {}
    \/ v[1] = "arr" /\ key = lengthKey

\* value[key], for a value that is neither null nor undefined
GetProp(v, key) ==
    LET es == IF v[1] = "str"
              THEN [i \in 1..Len(v[2]) |-> <<NatText(i - 1), Str(<<v[2][i]>>)>>]
              ELSE OwnEntries(v)
        at == EntryIndex(es, key)
    IN  IF at # {} THEN es[CHOOSE i \in at : TRUE][2]
        ELSE IF key = lengthKey /\ v[1] \in {"arr", "str"}
        THEN Num(FALSE, NatText(Len(v[2])))
        ELSE Undefined

\* array.slice(start, end) with JavaScript's treatment of negative and
\* out-of-range indices.
JsSlice(a, start, end) ==
    LET n == Len(a)
        from == IF start < 0 THEN (IF n + start < 0 THEN 0 ELSE n + start)
                ELSE (IF start > n THEN n ELSE start)
        to == IF end < 0 THEN (IF n + end < 0 THEN 0 ELSE n + end)
              ELSE (IF end > n THEN n ELSE end)
    IN  IF to <= from THEN <<>> ELSE SubSeq(a, from + 1, to)

\* obj[key] = value on a plain object's entries
AssignEntry(entries, key, value) ==
    IF EntryIndex(entries, key) # {}
    THEN [i \in 1..Len(entries) |-> IF entries[i][1] = key THEN <<key, value>> ELSE entries[i]]
    ELSE Append(entries, <<key, value>>)

RECURSIVE AssignAll(_, _)
AssignAll(entries, more) ==
    IF more = <<>> THEN entries
    ELSE AssignAll(AssignEntry(entries, more[1][1], more[1][2]), Tail(more))

\* Number(text) for a property-name suffix: "" is 0, a decimal integer is its
\* value, anything else over the modelled alphabet is NaN.
RECURSIVE DigitsValue(_)
DigitsValue(t) ==
    IF t = <<>> THEN 0
    ELSE DigitsValue(SubSeq(t, 1, Len(t) - 1)) * 10
         + (CHOOSE d \in 0..9 : NatText(d) = <<t[Len(t)]>>)

IsNumericText(t) == \A i \in 1..Len(t) : t[i] \in digits

(***************************************************************************)
(* src/runtime/match.ts: the interpretive matcher.                         *)
(* A match result is <<"null">>, <<"ok", args>> or <<"throw", name, msg>>, *)
(* msg being <<text, detail>> with the interpolated part as detail;        *)
(* args is <<"arr", values>> or <<"obj", entries>>.                        *)
(***************************************************************************)
NoMatch == <<"null">>
Matched(args) == <<"ok", args>>
MixedArgsInterp ==
    <<"throw", "TypeError",
      <<" matching error: Cannot mix named and unnamed arguments in a pattern", <<>>>>>>

ArgsEmpty(args) == args[2] = <<>>

\* mergeArgs(args1, args2): <<"ok", merged>> or the TypeError it throws.
mergeArgs(args1, args2) ==
    IF ArgsEmpty(args2) THEN <<"ok", args1>>
    ELSE IF ArgsEmpty(args1) THEN <<"ok", args2>>
    ELSE IF args1[1] = "arr" /\ args2[1] = "arr" THEN <<"ok", <<"arr", args1[2] \o args2[2]>>>>
    ELSE IF args1[1] = "obj" /\ args2[1] = "obj"
         THEN <<"ok", <<"obj", AssignAll(args1[2], args2[2])>>>>
    ELSE MixedArgsInterp

\* mergeArgs applied to a result that may itself be null or a throw.
MergeInto(r1, args2) == IF r1[1] = "ok" THEN mergeArgs(r1[2], args2) ELSE r1

MergeRes(args1, r2) == IF r2[1] = "ok" THEN mergeArgs(args1, r2[2]) ELSE r2

RECURSIVE extractAllArgs(_, _), ExtractFold(_, _, _, _)

\* nodes.reduce((acc, node) => mergeArgs(acc, extractAllArgs(node, fill)), [])
ExtractFold(nodes, i, acc, fill) ==
    IF i > Len(nodes) \/ acc[1] # "ok" THEN acc
    ELSE ExtractFold(nodes, i + 1, MergeRes(acc[2], extractAllArgs(nodes[i], fill)), fill)

extractAllArgs(node, fill) ==
    LET type == node[1]
    IN  IF type = "UnnamedArg"
        THEN IF Len(node) < 2 THEN <<"ok", <<"arr", <<fill>>>>>>
             ELSE MergeInto(extractAllArgs(node[2], fill), <<"arr", <<fill>>>>)
        ELSE IF type = "NamedArg"
        THEN IF Len(node) < 3 THEN <<"ok", <<"obj", <<<<node[2], fill>>>>>>>>
             ELSE MergeInto(extractAllArgs(node[3], fill), <<"obj", <<<<node[2], fill>>>>>>)
        ELSE IF type = "UnnamedSpreadArg" THEN <<"ok", <<"arr", <<fill>>>>>>
        ELSE IF type = "NamedSpreadArg" THEN <<"ok", <<"obj", <<<<node[2], fill>>>>>>>>
        ELSE IF type = "Tuple" THEN ExtractFold(node[2], 1, <<"ok", <<"arr", <<>>>>>>, fill)
        ELSE IF type = "Object"
        THEN ExtractFold([i \in 1..Len(node[2]) |-> node[2][i][2]], 1, <<"ok", <<"arr", <<>>>>>>, fill)
        ELSE <<"ok", <<"arr", <<>>>>>>

\* validateUpperBound(value, upperBound)
validateUpperBound(value, upperBound) ==
    CASE upperBound = "unknown" -> TRUE
      [] upperBound = "object" -> IsObjectLike(value)
      [] upperBound = "nonNullable" -> value[1] \notin {"null", "undefined"}
      [] upperBound = "Array" -> IsArray(value)
      [] upperBound \in {"Date", "RegExp", "Error", "Map", "Set", "WeakMap", "WeakSet",
                         "Promise", "ArrayBuffer", "DataView"} ->
            value[1] = "obj" /\ value[2] = upperBound
      [] upperBound = "TypedArray" -> value[1] = "obj" /\ value[2] = "TypedArray"
      [] OTHER -> TypeOf(value) = upperBound

\* The key an object-pattern entry claims: k.endsWith("?") ? k.slice(0, -1) : k
RealKey(k) == IF EndsWith(k, <<"?">>) THEN SubSeq(k, 1, Len(k) - 1) ELSE k

\* result[key] = v on the fresh object `const result = {}` adds the own
\* property `key`, except for the key __proto__: that assignment goes to the
\* accessor inherited from Object.prototype and adds no own property.
AssignAddsOwn(key) == key # protoKey

\* The object an object-pattern spread captures: for each own enumerable key
\* of value that no non-spread entry claims, result[key] = value[key].
SpreadObject(value, entries) ==
    LET claimed == {RealKey(entries[i][1]) : i \in {j \in 1..Len(entries) :
                                                     ~IncludesSpread(entries[j][2][1])}}
    IN  Obj("Object", SelectSeq(OwnEntries(value),
                                LAMBDA e : e[1] \notin claimed /\ AssignAddsOwn(e[1])))

\* entriesOf(value).filter(_<number>).sort(by number).map(value): a stable
\* insertion sort of the own enumerable `_<number>` properties.
AdtFieldKey(k) == StartsWith(k, <<"_">>) /\ IsNumericText(Drop(k, 1))

RECURSIVE InsertSorted(_, _)
InsertSorted(sorted, e) ==
    IF sorted = <<>> THEN <<e>>
    ELSE IF DigitsValue(Drop(sorted[Len(sorted)][1], 1)) <= DigitsValue(Drop(e[1], 1))
         THEN Append(sorted, e)
         ELSE Append(InsertSorted(SubSeq(sorted, 1, Len(sorted) - 1), e), sorted[Len(sorted)])

RECURSIVE SortFields(_)
SortFields(es) ==
    IF es = <<>> THEN <<>>
    ELSE InsertSorted(SortFields(SubSeq(es, 1, Len(es) - 1)), es[Len(es)])

AdtFields(value) ==
    LET fs == SortFields(SelectSeq(OwnEntries(value), LAMBDA e : AdtFieldKey(e[1])))
    IN  [i \in 1..Len(fs) |-> fs[i][2]]

RECURSIVE matchNode(_, _), MatchTuple(_, _, _, _, _), TupleNext(_, _, _, _, _),
          MatchObject(_, _, _, _), ObjectNext(_, _, _, _), MatchOr(_, _, _), OrNext(_, _, _, _)

\* The end of one Tuple iteration: a null or a throw leaves the loop, the
\* merged args go on to element i + 1 with the new `rest`.
TupleNext(value, elements, i, rest, merged) ==
    IF merged[1] # "ok" THEN merged
    ELSE MatchTuple(value, elements, i + 1, rest, merged[2])

\* The Tuple loop from element i (1-based) with the current `rest` and args.
MatchTuple(value, elements, i, rest, args) ==
    IF i > Len(elements) THEN Matched(args)
    ELSE LET node == elements[i]
             \* value.length - (elements.length - i), i being 0-based in the code
             cut == Len(value[2]) - (Len(elements) - (i - 1))
         IN  IF node[1] = "WildcardSpread"
             THEN TupleNext(value, elements, i, JsSlice(rest, cut, Len(rest)), Matched(args))
             ELSE IF node[1] = "UnnamedSpreadArg"
             THEN TupleNext(value, elements, i, JsSlice(rest, cut, Len(rest)),
                            mergeArgs(args, <<"arr", <<Arr(JsSlice(rest, 0, cut))>>>>))
             ELSE IF node[1] = "NamedSpreadArg"
             THEN TupleNext(value, elements, i, JsSlice(rest, cut, Len(rest)),
                            mergeArgs(args, <<"obj", <<<<node[2], Arr(JsSlice(rest, 0, cut))>>>>>>))
             ELSE TupleNext(value, elements, i, JsSlice(rest, 1, Len(rest)),
                            MergeRes(args, matchNode(IF rest = <<>> THEN Undefined ELSE rest[1],
                                                     node)))

\* The end of one Object iteration.
ObjectNext(value, entries, i, merged) ==
    IF merged[1] # "ok" THEN merged
    ELSE MatchObject(value, entries, i + 1, merged[2])

\* The Object loop from entry i.
MatchObject(value, entries, i, args) ==
    IF i > Len(entries) THEN Matched(args)
    ELSE LET key == entries[i][1]
             node == entries[i][2]
         IN  IF node[1] = "UnnamedSpreadArg"
             THEN ObjectNext(value, entries, i,
                             mergeArgs(args, <<"arr", <<SpreadObject(value, entries)>>>>))
             ELSE IF node[1] = "NamedSpreadArg"
             THEN ObjectNext(value, entries, i,
                             mergeArgs(args, <<"obj", <<<<node[2], SpreadObject(value, entries)>>>>>>))
             ELSE IF EndsWith(key, <<"?">>) /\ ~HasProp(value, RealKey(key))
             THEN ObjectNext(value, entries, i, MergeRes(args, extractAllArgs(node, Undefined)))
             ELSE IF ~EndsWith(key, <<"?">>) /\ ~HasProp(value, key) THEN NoMatch
             ELSE ObjectNext(value, entries, i,
                             MergeRes(args, matchNode(GetProp(value, RealKey(key)), node)))

\* for (const variant of node[1]) { result = matchNode(...); if (result) return result }
OrNext(value, variants, i, r) == IF r[1] # "null" THEN r ELSE MatchOr(value, variants, i + 1)

MatchOr(value, variants, i) ==
    IF i > Len(variants) THEN NoMatch
    ELSE OrNext(value, variants, i, matchNode(value, variants[i]))

matchNode(value, node) ==
    LET type == node[1]
    IN  CASE type = "NullLiteral" ->
                IF value = Null THEN Matched(<<"arr", <<>>>>) ELSE NoMatch
          [] type = "UndefinedLiteral" ->
                IF value = Undefined THEN Matched(<<"arr", <<>>>>) ELSE NoMatch
          [] type = "BooleanLiteral" ->
                IF value = Bool(node[2]) THEN Matched(<<"arr", <<>>>>) ELSE NoMatch
          [] type \in {"BigIntLiteral", "NumberLiteral"} ->
                \* Object.is(value, node[1])
                IF value = node[2] THEN Matched(<<"arr", <<>>>>) ELSE NoMatch
          [] type = "StringLiteral" ->
                IF value = Str(node[2]) THEN Matched(<<"arr", <<>>>>) ELSE NoMatch
          [] type = "Wildcard" ->
                IF validateUpperBound(value, node[2]) THEN Matched(<<"arr", <<>>>>) ELSE NoMatch
          [] type = "UnnamedArg" ->
                IF Len(node) < 2 THEN Matched(<<"arr", <<value>>>>)
                ELSE MergeInto(matchNode(value, node[2]), <<"arr", <<value>>>>)
          [] type = "NamedArg" ->
                IF Len(node) < 3 THEN Matched(<<"obj", <<<<node[2], value>>>>>>)
                ELSE MergeInto(matchNode(value, node[3]), <<"obj", <<<<node[2], value>>>>>>)
          [] type = "Tuple" ->
                IF ~IsArray(value) THEN NoMatch
                ELSE IF (~\E i \in 1..Len(node[2]) : IncludesSpread(node[2][i][1]))
                        /\ Len(node[2]) # Len(value[2]) THEN NoMatch
                ELSE IF Len(value[2]) < Len(node[2]) - 1 THEN NoMatch
                ELSE MatchTuple(value, node[2], 1, value[2], <<"arr", <<>>>>)
          [] type = "Object" ->
                IF ~IsObjectLike(value) THEN NoMatch
                ELSE MatchObject(value, node[2], 1, <<"arr", <<>>>>)
          [] type = "SugaredADTRoot" ->
                IF ~IsObjectLike(value) \/ ~HasProp(value, tagKey)
                   \/ GetProp(value, tagKey) # Str(node[2])
                THEN NoMatch
                ELSE Matched(<<"arr", AdtFields(value)>>)
          [] type = "Or" -> MatchOr(value, node[2], 1)
          [] OTHER -> <<"throw", "Error", <<"Cannot handle pattern type", <<>>>>>>

\* invokeCaseFn(value, matchResult, onMatch): the argument list the handler
\* is called with.
invokeCaseFn(value, args) ==
    IF ArgsEmpty(args) THEN <<value>>
    ELSE IF args[1] = "arr" THEN args[2]
    ELSE <<Obj("Object", args[2])>>

(***************************************************************************)
(* src/runtime/compile.ts: code generation.                                *)
(*                                                                         *)
(* The compiler emits JavaScript source text.  The model keeps the text's  *)
(* structure: a path expression is <<"path", target, parts>>, a predicate  *)
(* and a getter are tagged tuples over paths, and the pieces the code      *)
(* pastes in as raw text (property names between double quotes, numbers    *)
(* printed with String()) are kept as that text and read back by the       *)
(* evaluator the way the JavaScript parser reads them.                     *)
(***************************************************************************)
KeyPart(key) == <<"k", key>>
IndexPart(i) == <<"i", i>>

RangeError == <<"throw", "RangeError", <<"Maximum call stack size exceeded", <<>>>>>>

\* joinPath(matchTarget, path).  For a negative numeric part the code calls
\* joinPath(matchTarget, path) again with the same arguments, so the call
\* never returns and the engine raises RangeError; otherwise the text names
\* the property chain target.part1.part2... exactly (JSON.stringify quoting).
joinPath(matchTarget, path) ==
    IF \E i \in 1..Len(path) : path[i][1] = "i" /\ path[i][2] < 0
    THEN RangeError
    ELSE <<"ok", <<"path", matchTarget, path>>>>

\* String(n) of a number: -0 prints as "0".
NumberToText(n) == (IF n[2] /\ n[3] # <<"0">> THEN <<"-">> ELSE <<>>) \o n[3]

\* String(n) of a bigint.
BigIntToText(n) == (IF n[2] THEN <<"-">> ELSE <<>>) \o n[3]

\* compileUpperBound(matchTarget, path, upperBound): <<"ok", predicates>>
\* with no predicate for "unknown", or the throw of joinPath.
compileUpperBound(matchTarget, path, upperBound) ==
    LET jp == joinPath(matchTarget, path)
    IN  IF upperBound = "unknown" THEN <<"ok", <<>>>>
        ELSE IF jp[1] # "ok" THEN jp
        ELSE <<"ok", <<<<"bound", jp[2], upperBound>>>>>>

UnnamedName == <<"_">>

RECURSIVE compileNode(_, _, _),
          CompileTuple(_, _, _, _, _, _, _), CompileTupleNext(_, _, _, _, _, _, _, _),
          CompileObject(_, _, _, _, _, _), CompileObjectNext(_, _, _, _, _, _, _),
          CompileOr(_, _, _, _, _), CompileOrNext(_, _, _, _, _, _)

\* Wrap every getter of an optional key: "key" in P ? getter : undefined
WrapOptional(realKey, jp, args) ==
    [i \in 1..Len(args) |-> <<args[i][1], <<"cond", realKey, jp, args[i][2]>>>>]

\* The end of one Tuple iteration: `sub` is what the element compiled to,
\* <<"ok", predicates, args>> or a throw that leaves the loop.
CompileTupleNext(matchTarget, path, elements, i, visitedSpread, predicates, args, sub) ==
    IF sub[1] # "ok" THEN sub
    ELSE CompileTuple(matchTarget, path, elements, i + 1, visitedSpread,
                      predicates \o sub[2], args \o sub[3])

\* The Tuple loop from element i (1-based).
CompileTuple(matchTarget, path, elements, i, visitedSpread, predicates, args) ==
    IF i > Len(elements) THEN <<"ok", predicates, args>>
    ELSE LET node == elements[i]
             n == Len(elements)
             jp == joinPath(matchTarget, path)
             \* .slice(i, P.length - (n - i - 1)), i being 0-based in the code
             getter == <<"slice", jp[2], i - 1, n - i>>
             name == IF node[1] = "UnnamedSpreadArg" THEN UnnamedName ELSE node[2]
         IN  IF node[1] = "WildcardSpread"
             THEN CompileTupleNext(matchTarget, path, elements, i, TRUE, predicates, args,
                                   <<"ok", <<>>, <<>>>>)
             ELSE IF node[1] \in {"UnnamedSpreadArg", "NamedSpreadArg"}
             THEN CompileTupleNext(matchTarget, path, elements, i, TRUE, predicates, args,
                                   IF jp[1] # "ok" THEN jp
                                   ELSE <<"ok", <<>>, <<<<name, getter>>>>>>)
             ELSE CompileTupleNext(matchTarget, path, elements, i, visitedSpread,
                                   predicates, args,
                                   compileNode(matchTarget,
                                               Append(path, IndexPart(IF visitedSpread
                                                                      THEN (i - 1) - n
                                                                      ELSE i - 1)),
                                               node))

\* An optional entry whose pattern compiled to `sub`: the predicates are
\* guarded by `"key" in P`, the getters wrapped, `more` appended.
\* (`if (subPredicates)`: an array is always truthy.)
OptionalEntry(realKey, jp, sub, more) ==
    IF sub[1] # "ok" THEN sub
    ELSE <<"ok", <<<<"optional", realKey, jp, sub[2]>>>>,
           WrapOptional(realKey, jp, sub[3]) \o more>>

\* A required entry whose pattern compiled to `sub`.
RequiredEntry(key, jp, sub) ==
    IF sub[1] # "ok" THEN sub
    ELSE <<"ok", <<<<"in", key, jp>>>> \o sub[2], sub[3]>>

\* The end of one Object iteration.
CompileObjectNext(matchTarget, path, entries, i, predicates, args, sub) ==
    IF sub[1] # "ok" THEN sub
    ELSE CompileObject(matchTarget, path, entries, i + 1, predicates \o sub[2], args \o sub[3])

\* The Object loop from entry i.
CompileObject(matchTarget, path, entries, i, predicates, args) ==
    IF i > Len(entries) THEN <<"ok", predicates, args>>
    ELSE LET key == entries[i][1]
             node == entries[i][2]
             jp == joinPath(matchTarget, path)
             matchedKeys == SelectSeq([j \in 1..Len(entries) |->
                                          IF IncludesSpread(entries[j][2][1]) THEN <<"skip">>
                                          ELSE <<"key", RealKey(entries[j][1])>>],
                                      LAMBDA e : e[1] = "key")
             spreadName == IF node[1] = "UnnamedSpreadArg" THEN UnnamedName ELSE node[2]
             realKey == SubSeq(key, 1, Len(key) - 1)
             isArg == node[1] \in {"UnnamedArg", "NamedArg"}
             argName == IF node[1] = "UnnamedArg" THEN UnnamedName ELSE node[2]
             hasBound == IF node[1] = "UnnamedArg" THEN Len(node) >= 2 ELSE Len(node) >= 3
             boundedNode == IF node[1] = "UnnamedArg" THEN node[2] ELSE node[3]
             whole == joinPath(matchTarget, Append(path, KeyPart(realKey)))
         IN  IF jp[1] # "ok" THEN jp
             ELSE IF node[1] \in {"UnnamedSpreadArg", "NamedSpreadArg"}
             THEN CompileObjectNext(matchTarget, path, entries, i, predicates, args,
                      <<"ok", <<>>,
                        <<<<spreadName,
                            <<"objRest", jp[2],
                              [j \in 1..Len(matchedKeys) |-> matchedKeys[j][2]]>>>>>>>>)
             ELSE IF EndsWith(key, <<"?">>) /\ isArg /\ ~hasBound
             THEN CompileObjectNext(matchTarget, path, entries, i, predicates, args,
                      <<"ok", <<>>,
                        <<<<argName,
                            <<"cond", realKey, jp[2], <<"rawProp", jp[2], realKey>>>>>>>>>>)
             ELSE IF EndsWith(key, <<"?">>) /\ isArg
             THEN CompileObjectNext(matchTarget, path, entries, i, predicates, args,
                      OptionalEntry(realKey, jp[2],
                          compileNode(matchTarget, Append(path, KeyPart(realKey)), boundedNode),
                          <<<<argName, <<"cond", realKey, jp[2], <<"get", whole[2]>>>>>>>>))
             ELSE IF EndsWith(key, <<"?">>)
             THEN CompileObjectNext(matchTarget, path, entries, i, predicates, args,
                      OptionalEntry(realKey, jp[2],
                          compileNode(matchTarget, Append(path, KeyPart(realKey)), node),
                          <<>>))
             ELSE CompileObjectNext(matchTarget, path, entries, i, predicates, args,
                      RequiredEntry(key, jp[2],
                          compileNode(matchTarget, Append(path, KeyPart(key)), node)))

\* The Or loop: one joined predicate text per variant, arguments dropped.
CompileOrNext(matchTarget, path, variants, i, joined, sub) ==
    IF sub[1] # "ok" THEN sub
    ELSE CompileOr(matchTarget, path, variants, i + 1, Append(joined, sub[2]))

CompileOr(matchTarget, path, variants, i, joined) ==
    IF i > Len(variants) THEN <<"ok", <<<<"or", joined>>>>, <<>>>>
    ELSE CompileOrNext(matchTarget, path, variants, i, joined,
                       compileNode(matchTarget, path, variants[i]))

\* The same with the argument itself put before the inner pattern's
\* arguments: `[[name, path], ...args]` instead of `[...args, [name, path]]`.
BoundArgWholeFirst(name, jp, sub) ==
    IF sub[1] # "ok" THEN sub
    ELSE IF jp[1] # "ok" THEN jp
    ELSE <<"ok", sub[2], <<<<name, <<"get", jp[2]>>>>>> \o sub[3]>>

\* An argument with an inner pattern that compiled to `sub`: the inner
\* pattern's predicates and arguments, then the argument itself.
BoundArg(name, jp, sub) ==
    IF sub[1] # "ok" THEN sub
    ELSE IF jp[1] # "ok" THEN jp
    ELSE <<"ok", sub[2], Append(sub[3], <<name, <<"get", jp[2]>>>>)>>

\* compileNode(matchTarget, path, node): <<"ok", predicates, args>> or a throw.
compileNode(matchTarget, path, node) ==
    LET type == node[1]
        jp == joinPath(matchTarget, path)
        ub == compileUpperBound(matchTarget, path, node[2])
        obj == compileUpperBound(matchTarget, path, "object")
        hasSpread == \E i \in 1..Len(node[2]) : IncludesSpread(node[2][i][1])
    IN  CASE type = "Wildcard" -> IF ub[1] # "ok" THEN ub ELSE <<"ok", ub[2], <<>>>>
          [] type = "UnnamedArg" /\ Len(node) >= 2 ->
                BoundArg(UnnamedName, jp, compileNode(matchTarget, path, node[2]))
          [] type = "NamedArg" /\ Len(node) >= 3 ->
                BoundArg(node[2], jp, compileNode(matchTarget, path, node[3]))
          [] type = "Or" -> CompileOr(matchTarget, path, node[2], 1, <<>>)
          [] OTHER ->
            IF jp[1] # "ok" THEN jp
            ELSE CASE type = "NullLiteral" -> <<"ok", <<<<"isNull", jp[2]>>>>, <<>>>>
                   [] type = "UndefinedLiteral" -> <<"ok", <<<<"isUndefined", jp[2]>>>>, <<>>>>
                   [] type = "BigIntLiteral" ->
                        <<"ok", <<<<"eqBigInt", jp[2], BigIntToText(node[2])>>>>, <<>>>>
                   [] type = "NumberLiteral" ->
                        <<"ok", <<<<"objectIs", jp[2], NumberToText(node[2])>>>>, <<>>>>
                   [] type = "BooleanLiteral" -> <<"ok", <<<<"eqBool", jp[2], node[2]>>>>, <<>>>>
                   [] type = "StringLiteral" -> <<"ok", <<<<"eqStr", jp[2], node[2]>>>>, <<>>>>
                   [] type = "UnnamedArg" -> <<"ok", <<>>, <<<<UnnamedName, <<"get", jp[2]>>>>>>>>
                   [] type = "NamedArg" -> <<"ok", <<>>, <<<<node[2], <<"get", jp[2]>>>>>>>>
                   [] type = "Tuple" ->
                        CompileTuple(matchTarget, path, node[2], 1, FALSE,
                            (IF matchTarget = "args" THEN <<>> ELSE <<<<"isArray", jp[2]>>>>)
                              \o <<IF ~hasSpread THEN <<"lenEq", jp[2], Len(node[2])>>
                                   ELSE <<"lenGe", jp[2], Len(node[2]) - 1>>>>,
                            <<>>)
                   [] type = "Object" -> CompileObject(matchTarget, path, node[2], 1, obj[2], <<>>)
                   [] type = "SugaredADTRoot" ->
                        <<"ok", Append(obj[2], <<"tagIs", jp[2], node[2]>>),
                          <<<<UnnamedName, <<"adtFields", jp[2]>>>>>>>>
                   [] OTHER -> <<"throw", "Error", <<"Cannot handle pattern type", <<>>>>>>

MixedArgsCompile ==
    <<"throw", "TypeError",
      <<"Pattern matching error: Cannot mix named and unnamed arguments in a pattern", <<>>>>>>

\* constructArgs(matchTarget, args): the argument list of the handler call,
\* <<"ok", <<"whole">>>>, <<"ok", <<"positional", getters>>>>,
\* <<"ok", <<"object", <<name, getter>>...>>>> or the TypeError it throws.
constructArgs(args) ==
    IF args = <<>> THEN <<"ok", <<"whole">>>>
    ELSE IF \A i \in 1..Len(args) : args[i][1] = UnnamedName
    THEN <<"ok", <<"positional", [i \in 1..Len(args) |-> args[i][2]]>>>>
    ELSE IF ~\E i \in 1..Len(args) : args[i][1] = UnnamedName
    THEN <<"ok", <<"object", args>>>>
    ELSE MixedArgsCompile

(***************************************************************************)
(* What the generated JavaScript computes when the engine runs it.         *)
(* An evaluation is <<"ok", value>> or <<"throw", name, message>>; a       *)
(* predicate evaluates to "T", "F" or "E" (it throws a TypeError).         *)
(***************************************************************************)
JsTypeError == <<"throw", "TypeError", <<"(raised by the engine)", <<>>>>>>

\* The string a double-quoted literal denotes when `raw` is pasted between
\* the quotes unescaped: <<"ok", chars>>, or <<"syntax">> when the text is
\* not one string literal (an unescaped quote or line break, a trailing
\* backslash).  \v, \x, \u and digit escapes are not produced by the
\* patterns of the model.
RECURSIVE ReadDoubleQuoted(_, _, _)
ReadDoubleQuoted(raw, i, out) ==
    IF i > Len(raw) THEN <<"ok", out>>
    ELSE IF raw[i] \in {"\"", "\n", "\r"} THEN <<"syntax">>
    ELSE IF raw[i] # "\\" THEN ReadDoubleQuoted(raw, i + 1, Append(out, raw[i]))
    ELSE IF i = Len(raw) THEN <<"syntax">>
    ELSE ReadDoubleQuoted(raw, i + 2,
             Append(out, CASE raw[i + 1] = "n" -> "\n"
                           [] raw[i + 1] = "r" -> "\r"
                           [] raw[i + 1] = "t" -> "\t"
                           [] raw[i + 1] = "b" -> "BS"
                           [] raw[i + 1] = "f" -> "FF"
                           [] OTHER -> raw[i + 1]))

\* The number a numeric literal text denotes, a leading "-" being the unary
\* minus: "0" is +0.
ReadNumberText(t) ==
    IF StartsWith(t, <<"-">>) THEN Num(TRUE, Drop(t, 1)) ELSE Num(FALSE, t)

\* The bigint the text followed by `n` denotes (-0n is 0n).
ReadBigIntText(t) ==
    IF StartsWith(t, <<"-">>) THEN BigInt(TRUE, Drop(t, 1)) ELSE BigInt(FALSE, t)

\* target.part1.part2...: reading a property of null or undefined throws.
RECURSIVE WalkPath(_, _, _)
WalkPath(cur, parts, i) ==
    IF i > Len(parts) THEN <<"ok", cur>>
    ELSE IF cur[1] \in {"null", "undefined"} THEN JsTypeError
    ELSE WalkPath(GetProp(cur, IF parts[i][1] = "k" THEN parts[i][2] ELSE NatText(parts[i][2])),
                  parts, i + 1)

EvalPath(jp, root) == WalkPath(root, jp[3], 1)

\* The test compileUpperBound emits for `upperBound`, applied to v.
EvalBound(v, upperBound) ==
    CASE upperBound \in {"string", "number", "boolean", "symbol", "bigint", "function"} ->
            TypeOf(v) = upperBound
      [] upperBound = "object" ->
            (v # Null /\ TypeOf(v) = "object") \/ TypeOf(v) = "function"
      [] upperBound = "nonNullable" -> v # Null /\ v # Undefined
      [] upperBound = "Array" -> IsArray(v)
      [] upperBound = "TypedArray" -> v[1] = "obj" /\ v[2] = "TypedArray"
      [] OTHER -> v[1] = "obj" /\ v[2] = upperBound

\* x >= n for the values a `length` property holds in the model.
LengthAtLeast(x, n) == x[1] = "num" /\ ~x[2] /\ IsNumericText(x[3]) /\ DigitsValue(x[3]) >= n

RECURSIVE EvalPred(_, _), EvalPredOn(_, _, _), EvalPredAt(_, _, _),
          EvalAnd(_, _, _), EvalAndNext(_, _, _, _), EvalOr(_, _, _), EvalOrNext(_, _, _, _)

\* p1 && p2 && ... from predicate i
EvalAndNext(preds, i, root, r) == IF r = "T" THEN EvalAnd(preds, i + 1, root) ELSE r

EvalAnd(preds, i, root) ==
    IF i > Len(preds) THEN "T" ELSE EvalAndNext(preds, i, root, EvalPred(preds[i], root))

\* v1 || v2 || ... from variant i, each variant an && chain
EvalOrNext(variants, i, root, r) == IF r = "F" THEN EvalOr(variants, i + 1, root) ELSE r

EvalOr(variants, i, root) ==
    IF i > Len(variants) THEN "F" ELSE EvalOrNext(variants, i, root, EvalAnd(variants[i], 1, root))

\* A predicate on the value v its path names.
EvalPredOn(pred, root, v) ==
    LET kind == pred[1]
        key == ReadDoubleQuoted(pred[2], 1, <<>>)[2]
        B(b) == IF b THEN "T" ELSE "F"
    IN  CASE kind = "isNull" -> B(v = Null)
          [] kind = "isUndefined" -> B(v = Undefined)
          [] kind = "eqBigInt" -> B(v = ReadBigIntText(pred[3]))
          [] kind = "objectIs" -> B(v = ReadNumberText(pred[3]))
          [] kind = "eqBool" -> B(v = Bool(pred[3]))
          [] kind = "eqStr" -> B(v = Str(pred[3]))
          [] kind = "bound" -> B(EvalBound(v, pred[3]))
          [] kind = "isArray" -> B(IsArray(v))
          [] kind = "lenEq" ->
               IF v[1] \in {"null", "undefined"} THEN "E"
               ELSE B(GetProp(v, lengthKey) = Num(FALSE, NatText(pred[3])))
          [] kind = "lenGe" ->
               IF v[1] \in {"null", "undefined"} THEN "E"
               ELSE B(LengthAtLeast(GetProp(v, lengthKey), pred[3]))
          [] kind = "in" -> IF ~IsObjectLike(v) THEN "E" ELSE B(HasProp(v, key))
          [] kind = "tagIs" ->
               IF ~IsObjectLike(v) THEN "E"
               ELSE B(HasProp(v, tagKey) /\ GetProp(v, tagKey) = Str(pred[3]))
          [] kind = "optional" ->
               IF ~IsObjectLike(v) THEN "E"
               ELSE IF ~HasProp(v, key) THEN "T"
               ELSE EvalAnd(pred[4], 1, root)

\* A predicate whose path evaluated to `at`: reading the path may throw.
EvalPredAt(pred, root, at) == IF at[1] # "ok" THEN "E" ELSE EvalPredOn(pred, root, at[2])

EvalPred(pred, root) ==
    IF pred[1] = "or" THEN EvalOr(pred[2], 1, root)
    ELSE EvalPredAt(pred, root,
                    EvalPath(IF pred[1] \in {"in", "optional"} THEN pred[3] ELSE pred[2], root))

\* A getter evaluates to the list of arguments it contributes: one value,
\* or the spread of the ADT fields.
RECURSIVE EvalGetter(_, _), EvalGetterOn(_, _, _), EvalGetterAt(_, _, _)

\* A getter on the value v its path names.
EvalGetterOn(g, root, v) ==
    LET kind == g[1]
        key == ReadDoubleQuoted(IF kind = "cond" THEN g[2] ELSE g[3], 1, <<>>)[2]
    IN  CASE kind = "get" -> <<"ok", <<v>>>>
          [] kind = "rawProp" ->
               IF v[1] \in {"null", "undefined"} THEN JsTypeError
               ELSE <<"ok", <<GetProp(v, key)>>>>
          [] kind = "slice" ->
               \* P.slice(i, P.length - k)
               IF v[1] = "arr" THEN <<"ok", <<Arr(JsSlice(v[2], g[3], Len(v[2]) - g[4]))>>>>
               ELSE IF v[1] = "str" THEN <<"ok", <<Str(JsSlice(v[2], g[3], Len(v[2]) - g[4]))>>>>
               ELSE JsTypeError
          [] kind = "objRest" ->
               IF ~IsObjectLike(v) THEN JsTypeError
               ELSE <<"ok", <<Obj("Object",
                                  SelectSeq(OwnEntries(v),
                                            LAMBDA e : e[1] \notin Range(g[3])
                                                       /\ AssignAddsOwn(e[1])))>>>>
          [] kind = "cond" ->
               IF ~IsObjectLike(v) THEN JsTypeError
               ELSE IF HasProp(v, key) THEN EvalGetter(g[4], root)
               ELSE <<"ok", <<Undefined>>>>
          [] kind = "adtFields" ->
               IF v[1] \in {"null", "undefined"} THEN JsTypeError
               ELSE <<"ok", AdtFields(v)>>

EvalGetterAt(g, root, at) == IF at[1] # "ok" THEN at ELSE EvalGetterOn(g, root, at[2])

EvalGetter(g, root) ==
    EvalGetterAt(g, root, EvalPath(IF g[1] = "cond" THEN g[3] ELSE g[2], root))

(***************************************************************************)
(* src/cache.ts: class Cache<K, V>.                                        *)
(* _data is a Map (here a function on the set of stored keys), _queue the  *)
(* array of keys pushed by set().                                          *)
(***************************************************************************)
NewCache(maxSize) == [maxSize |-> maxSize, data |-> <<>>, queue |-> <<>>]

CacheSize(c) == Cardinality(DOMAIN c.data)

\* `if (key)`: a string is truthy iff it is not empty; undefined is falsy.
Truthy(key) == key # <<>>

MapDelete(data, key) == [k \in (DOMAIN data) \ {key} |-> data[k]]

MapSet(data, key, value) == [k \in (DOMAIN data) \cup {key} |-> IF k = key THEN value ELSE data[k]]

\* evict(): const key = this._queue.shift(); if (key) this._data.delete(key);
CacheEvict(c) ==
    IF c.queue = <<>>
    THEN c
    ELSE LET key == Head(c.queue)
         IN  [c EXCEPT !.queue = Tail(c.queue),
                       !.data = IF Truthy(key) THEN MapDelete(c.data, key) ELSE c.data]

\* while (this._data.size > this._maxSize) this.evict();
\* With an empty queue evict() changes nothing, so the loop condition stays
\* true for ever: the loop diverges exactly when it reaches that state.
RECURSIVE EvictLoop(_)
EvictLoop(c) ==
    IF CacheSize(c) > c.maxSize
    THEN IF c.queue = <<>>
         THEN [cache |-> c, diverges |-> TRUE]
         ELSE EvictLoop(CacheEvict(c))
    ELSE [cache |-> c, diverges |-> FALSE]

\* set(key, value)
CacheSet(c, key, value) ==
    EvictLoop([c EXCEPT !.data = MapSet(c.data, key, value),
                        !.queue = Append(c.queue, key)])

\* set maxSize(size)
CacheSetMaxSize(c, size) == EvictLoop([c EXCEPT !.maxSize = size])

\* A get that also refreshes the key's position in the queue (an LRU cache).
CacheGetLRU(c, key) ==
    [cache |-> IF key \in DOMAIN c.data
               THEN [c EXCEPT !.queue = Append(SelectSeq(c.queue, LAMBDA k : k # key), key)]
               ELSE c,
     result |-> IF key \in DOMAIN c.data THEN <<"hit", c.data[key]>> ELSE <<"miss">>]

\* get(key): return this._data.get(key);
CacheGet(c, key) ==
    [cache |-> c,
     result |-> IF key \in DOMAIN c.data THEN <<"hit", c.data[key]>> ELSE <<"miss">>]

(***************************************************************************)
(* The pattern strings and cases objects the model runs the library on.    *)
(***************************************************************************)
\* Pattern strings handed to parsePattern.
Patterns ==
    { <<"1">>,                       \* 1
      <<"1", " ", "<", "|", ">", " ", "2">>,     \* 1 <|> 2
      <<"[", ".", ".", ".", ",", " ", ".", ".", ".", "]">>,   \* [..., ...]
      <<"'", "a", "'", " ", "|", " ", "_">>,     \* 'a' | _
      <<"[", "_", "]", " ", "|", " ", "1">>,     \* [_] | 1
      <<"[", ".", ".", ".", "_", ",", " ", ".", ".", ".", "_", "]", " ", "a", "s", " ", "_">>,  \* [..._, ..._] as _
      <<"S", "o", "m", "e">> }    \* Some

Cases1 == <<<<"1">>, "f">>
Cases2 == <<<<"2">>, "g">>

\* The same two patterns with the handlers the other way round.
Cases1Other == <<<<"1">>, "g">>
Cases2Other == <<<<"2">>, "f">>

\* Calls of compile: the cases object and the variadic flag.
Compilations ==
    { [cases |-> <<Cases1, Cases2>>, variadic |-> FALSE],
      [cases |-> <<Cases1Other, Cases2Other>>, variadic |-> FALSE],
      [cases |-> <<<<<<"1", " ", "<", "|", ">", " ", "2">>, "h">>>>, variadic |-> FALSE],
      [cases |-> <<>>, variadic |-> FALSE],
      [cases |-> <<Cases1>>, variadic |-> TRUE],
      [cases |-> <<<<<<"[", ".", ".", ".", "_", "]">>, "f">>, <<<<"_">>, "g">>>>, variadic |-> FALSE],
      [cases |-> <<<<<<"[", "h", "e", "a", "d", ",", " ", ".", ".", ".", "t", "a", "i", "l", "]">>, "f">>, <<<<"_">>, "g">>>>, variadic |-> FALSE],
      [cases |-> <<<<<<"-", "0">>, "f">>, <<<<"_">>, "g">>>>, variadic |-> FALSE],
      [cases |-> <<<<<<"[", ".", ".", ".", ",", " ", ".", ".", ".", "]">>, "f">>>>, variadic |-> FALSE],
      [cases |-> <<<<<<"{", "a", "?", ":", " ", "*", "}">>, "f">>>>, variadic |-> FALSE] }

\* Cases objects handed to the matching entry points, each the sequence of
\* its <<pattern, handler>> properties in the order they were declared.
TrialCases ==
    { <<<<<<"[", ".", ".", ".", "_", "]">>, "f">>>>,    \* [..._]
      <<<<<<"[", "_", ",", " ", ".", ".", ".", "_", "]">>, "f">>>>,    \* [_, ..._]
      <<<<<<"[", ".", ".", ".", "_", ",", " ", "_", "]">>, "f">>>>,    \* [..._, _]
      <<<<<<"[", "x", ",", " ", ".", ".", ".", "]">>, "f">>>>,    \* [x, ...]
      <<<<<<"{", "a", "?", ":", " ", "[", "_", "]", " ", "|", " ", "1", "}">>, "f">>>>,    \* {a?: [_] | 1}
      <<<<<<"{", "a", "?", ":", " ", "n", "u", "m", "b", "e", "r", " ", "a", "s", " ", "_", "}">>, "f">>>>,    \* {a?: number as _}
      <<<<<<"N", "o", "n", "e">>, "f">>>>,    \* None
      <<<<<<"[", "_", ",", " ", "x", "]">>, "g">>>>,    \* [_, x]
      <<<<<<"_">>, "f">>, <<<<"[", "_", ",", " ", "x", "]">>, "g">>>>,    \* _; [_, x]
      <<<<<<"_">>, "f">>, <<<<"1">>, "g">>>>,    \* _; 1
      <<<<<<"1">>, "f">>, <<<<"_">>, "g">>>>,    \* 1; _
      <<<<<<"-", "0">>, "f">>>>,    \* -0
      <<<<<<"0">>, "f">>>>,    \* 0
      <<<<<<"S", "o", "m", "e">>, "f">>>>,    \* Some
      <<<<<<"{", "a", ":", " ", "1", ",", " ", ".", ".", ".", "r", "e", "s", "t", "}">>, "f">>>>,    \* {a: 1, ...rest}
      <<<<<<"{", "a", "?", ":", " ", "1", ",", " ", ".", ".", ".", "_", "}">>, "f">>>>,    \* {a?: 1, ..._}
      <<<<<<"[", "_", ",", " ", "[", "_", "]", " ", "a", "s", " ", "_", "]", " ", "a", "s", " ", "_">>, "f">>>>,    \* [_, [_] as _] as _
      <<<<<<"1", " ", "|">>, "f">>>>,    \* 1 |
      <<<<<<"1", " ", "2">>, "f">>>>,    \* 1 2
      <<<<<<"[", "1">>, "f">>>>,    \* [1
      <<<<<<"'", "'">>, "f">>>>,    \* ''
      <<<<<<"\"", "\"">>, "f">>>>,    \* ""
      <<<<<<"'", "a", "'">>, "f">>>>,    \* 'a'
      <<<<<<"s", "t", "r", "i", "n", "g", "i", "f", "i", "e", "d">>, "f">>>>,    \* stringified
      <<<<<<"n", "u", "l", "l", "a", "b", "l", "e">>, "f">>>>,    \* nullable
      <<<<<<"{", "a", "?", ":", " ", "*", "}">>, "f">>>>,    \* {a?: *}
      <<<<<<"*", " ", "|", " ", "1">>, "f">>>>,    \* * | 1
      <<<<<<"[", "[", "_", "]", "]">>, "f">>>>,    \* [[_]]
      <<<<<<"{", "'", "a", "?", "'", ":", " ", "1", "}">>, "f">>>>,    \* {'a?': 1}
      <<<<<<"{", "a", ":", " ", "[", "x", "]", " ", "a", "s", " ", "y", "}">>, "f">>, <<<<"[", "_", ",", " ", "_", "]">>, "g">>>> }    \* {a: [x] as y}; [_, _]

\* Every pattern string that reaches the parser.
PatternStrings ==
    Patterns
    \cup UNION {{c.cases[i][1] : i \in 1..Len(c.cases)} : c \in Compilations}
    \cup UNION {{cs[i][1] : i \in 1..Len(cs)} : cs \in TrialCases}

(***************************************************************************)
(* src/runtime/parser.ts: parsePattern.                                    *)
(***************************************************************************)
UpperBoundTexts == {UpperBoundText(validUpperBounds[i]) : i \in 1..Len(validUpperBounds)}

\* What parsePattern computes on a cache miss: <<"node", node>> when it
\* returns (and caches) a node, <<"null">> when it returns null, and
\* <<"throw", "Error", message>> when checkNode throws.
ParseChecked(node, chk) ==
    IF chk # "ok"
    THEN [result |-> <<"throw", "Error", <<chk, <<>>>>>>, checked |-> TRUE]
    ELSE [result |-> <<"node", node>>, checked |-> TRUE]

\* left(choice([unnamedOrAlias, namedOrAlias, orParser]), space), then
\* `if (!result.success || result.rest) return null; checkNode(result.data)`
ParseWhole(r) ==
    IF ~r.ok \/ Space(r.rest).rest # <<>>
    THEN [result |-> <<"null">>, checked |-> FALSE]
    ELSE ParseChecked(r.data, checkNode(r.data))

\* parseADTTagResult.success && !parseADTTagResult.rest.trim(), and the tag
\* is not the name of an upper bound.
ParseBareTag(adt, pattern) ==
    IF adt.ok /\ Space(adt.rest).rest = <<>> /\ adt.data \notin UpperBoundTexts
    THEN [result |-> <<"node", <<"SugaredADTRoot", adt.data>>>>, checked |-> FALSE]
    ELSE ParseWhole(AliasChoice(pattern))

ParseUncached(pattern) == ParseBareTag(adtTagParser(pattern), pattern)

\* The parser and the validator are pure functions of the pattern text: their
\* outcome for each pattern string of the model, computed once.
ParseResults == [p \in PatternStrings |-> ParseUncached(p)]

\* The cache miss of parsePattern: u is what the parser and the validator
\* made of the pattern; only a node is stored and returned.
ParseStored(st, u) ==
    [cache |-> st.cache, diverges |-> st.diverges, result |-> u.result,
     parsed |-> TRUE, checked |-> u.checked]

ParseMiss(pc, pattern, u) ==
    IF u.result[1] = "node"
    THEN ParseStored(CacheSet(pc, pattern, u.result[2]), u)
    ELSE [cache |-> pc, diverges |-> FALSE, result |-> u.result,
          parsed |-> TRUE, checked |-> u.checked]

\* A parsePattern that never consults the parse cache.
parsePatternAlwaysParses(pc, pattern) == ParseMiss(pc, pattern, ParseResults[pattern])

\* `const cached = _caches.parse.get(pattern); if (cached) return cached;`
ParseLookup(pc, pattern, cached) ==
    IF cached[1] = "hit"
    THEN [cache |-> pc, diverges |-> FALSE, result |-> <<"node", cached[2]>>,
          parsed |-> FALSE, checked |-> FALSE]
    ELSE ParseMiss(pc, pattern, ParseResults[pattern])

\* parsePattern(pattern) on the parse cache `pc`.  `parsed` and `checked`
\* tell whether this call ran the parser and the validator.
parsePattern(pc, pattern) == ParseLookup(pc, pattern, CacheGet(pc, pattern).result)

(***************************************************************************)
(* src/runtime/compile.ts: compile(cases, variadic).                       *)
(* A cases object is the sequence of its <<pattern, handler>> properties   *)
(* in insertion order; the three caches are a record parse/compile/match.  *)
(***************************************************************************)
MATCH_CACHE_PATTERN_SEPARATOR == <<" ", "<", "|", ">", " ">>
VariadicPrefix == <<"<", "v", "a", "r", "i", "a", "d", "i", "c", ">", " ">>
TargetValuePrefix == <<"<", "m", "a", "t", "c", "h", "T", "a", "r", "g", "e", "t", ":", "v", "a", "l", "u", "e", ">", " ">>
TargetArgsPrefix == <<"<", "m", "a", "t", "c", "h", "T", "a", "r", "g", "e", "t", ":", "a", "r", "g", "s", ">", " ">>

\* An integer-like property name ("0", "7", "42"): Object.keys and for-in
\* list these first, in ascending numeric order.
IsArrayIndex(k) ==
    /\ k # <<>>
    /\ \A i \in 1..Len(k) : k[i] \in digits
    /\ (k[1] # "0" \/ Len(k) = 1)
    /\ Len(k) <= 9

\* Object.keys(cases)
ObjectKeys(cases) ==
    LET keys == [i \in 1..Len(cases) |-> cases[i][1]]
        idx == SelectSeq(keys, IsArrayIndex)
        others == SelectSeq(keys, LAMBDA k : ~IsArrayIndex(k))
        sorted == SortFields([i \in 1..Len(idx) |-> <<<<"_">> \o idx[i], idx[i]>>])
    IN  [i \in 1..Len(sorted) |-> sorted[i][2]] \o others

\* cases[pattern]
HandlerOf(cases, pattern) ==
    cases[CHOOSE i \in 1..Len(cases) : cases[i][1] = pattern][2]

\* patterns.join(MATCH_CACHE_PATTERN_SEPARATOR)
RECURSIVE JoinPatterns(_)
JoinPatterns(patterns) ==
    IF patterns = <<>> THEN <<>>
    ELSE IF Len(patterns) = 1 THEN patterns[1]
    ELSE patterns[1] \o MATCH_CACHE_PATTERN_SEPARATOR \o JoinPatterns(Tail(patterns))

matchCacheKey(patterns, variadic) ==
    (IF variadic THEN VariadicPrefix ELSE <<>>) \o JoinPatterns(patterns)

compileCacheKey(pattern, variadic) ==
    (IF variadic THEN TargetArgsPrefix ELSE TargetValuePrefix) \o pattern

\* Whether the engine accepts the text of a predicate / a getter: an empty
\* operand ("()" or "x || )") and a key that is not one string literal are
\* syntax errors.
RECURSIVE PredSyntaxOk(_)
PredSyntaxOk(pred) ==
    CASE pred[1] = "in" -> ReadDoubleQuoted(pred[2], 1, <<>>)[1] = "ok"
      [] pred[1] = "optional" ->
            /\ ReadDoubleQuoted(pred[2], 1, <<>>)[1] = "ok"
            /\ pred[4] # <<>>
            /\ \A i \in 1..Len(pred[4]) : PredSyntaxOk(pred[4][i])
      [] pred[1] = "or" ->
            \A i \in 1..Len(pred[2]) :
                /\ pred[2][i] # <<>>
                /\ \A j \in 1..Len(pred[2][i]) : PredSyntaxOk(pred[2][i][j])
      [] OTHER -> TRUE

RECURSIVE GetterSyntaxOk(_)
GetterSyntaxOk(g) ==
    CASE g[1] = "cond" -> ReadDoubleQuoted(g[2], 1, <<>>)[1] = "ok" /\ GetterSyntaxOk(g[4])
      [] g[1] = "rawProp" -> ReadDoubleQuoted(g[3], 1, <<>>)[1] = "ok"
      [] OTHER -> TRUE

FragmentSyntaxOk(f) ==
    /\ \A i \in 1..Len(f.cond) : PredSyntaxOk(f.cond[i])
    /\ CASE f.call[1] = "whole" -> TRUE
         [] f.call[1] = "positional" -> \A i \in 1..Len(f.call[2]) : GetterSyntaxOk(f.call[2][i])
         [] f.call[1] = "object" -> \A i \in 1..Len(f.call[2]) : GetterSyntaxOk(f.call[2][i][2])

\* const nodes = patterns.map(parsePattern ...) from pattern i, on the parse
\* cache pc: the nodes, or the first throw.  ParseAllNext is the step after
\* parsePattern returned r for pattern i.
RECURSIVE ParseAll(_, _, _, _), ParseAllNext(_, _, _, _)
ParseAllNext(patterns, i, nodes, r) ==
    IF r.diverges THEN [cache |-> r.cache, diverges |-> TRUE, result |-> <<"none">>]
    ELSE IF r.result[1] = "null"
    THEN [cache |-> r.cache, diverges |-> FALSE,
          result |-> <<"throw", "TypeError", <<"Invalid pattern: ", patterns[i]>>>>]
    ELSE IF r.result[1] = "throw"
    THEN [cache |-> r.cache, diverges |-> FALSE, result |-> r.result]
    ELSE ParseAll(r.cache, patterns, i + 1, Append(nodes, r.result[2]))

ParseAll(pc, patterns, i, nodes) ==
    IF i > Len(patterns)
    THEN [cache |-> pc, diverges |-> FALSE, result |-> <<"ok", nodes>>]
    ELSE ParseAllNext(patterns, i, nodes, parsePattern(pc, patterns[i]))

\* The fragment { default, cond, call } for what compileNode returned, or
\* the throw of compileNode / constructArgs.
FragmentOf(c) ==
    LET a == constructArgs(c[3])
    IN  IF c[1] # "ok" THEN c
        ELSE IF a[1] # "ok" THEN a
        \* constructCondition(predicates) is null exactly for no predicate
        ELSE <<"ok", [default |-> c[2] = <<>>, cond |-> c[2], call |-> a[2]]>>

\* The code a pattern compiles to on a compile-cache miss.
CompileFragment(node, variadic) ==
    FragmentOf(compileNode(IF variadic THEN "args" ELSE "value", <<>>, node))

\* for (let i = 0; i < patterns.length; i++) { ... } from pattern i, on the
\* compile cache cc, with the body built so far.  CompileLoopAdd appends a
\* fragment (a default fragment ends the loop), CompileLoopMiss is the cache
\* miss with the fragment f just compiled, CompileLoopSet the step after
\* _caches.compile.set.
RECURSIVE CompileLoop(_, _, _, _, _, _), CompileLoopAdd(_, _, _, _, _, _, _),
          CompileLoopMiss(_, _, _, _, _, _, _), CompileLoopSet(_, _, _, _, _, _, _)
CompileLoopAdd(cc, patterns, nodes, variadic, i, body, frag) ==
    IF frag.default
    THEN [cache |-> cc, diverges |-> FALSE, result |-> <<"ok", Append(body, frag), TRUE>>]
    ELSE CompileLoop(cc, patterns, nodes, variadic, i + 1, Append(body, frag))

CompileLoopSet(patterns, nodes, variadic, i, body, frag, st) ==
    IF st.diverges THEN [cache |-> st.cache, diverges |-> TRUE, result |-> <<"none">>]
    ELSE CompileLoopAdd(st.cache, patterns, nodes, variadic, i, body, frag)

CompileLoopMiss(cc, patterns, nodes, variadic, i, body, f) ==
    IF f[1] # "ok" THEN [cache |-> cc, diverges |-> FALSE, result |-> f]
    ELSE CompileLoopSet(patterns, nodes, variadic, i, body, f[2],
                        CacheSet(cc, compileCacheKey(patterns[i], variadic), f[2]))

CompileLoop(cc, patterns, nodes, variadic, i, body) ==
    IF i > Len(patterns)
    THEN [cache |-> cc, diverges |-> FALSE, result |-> <<"ok", body, FALSE>>]
    ELSE LET cached == CacheGet(cc, compileCacheKey(patterns[i], variadic)).result
         IN  IF cached[1] = "hit"
             THEN CompileLoopAdd(cc, patterns, nodes, variadic, i, body, cached[2])
             ELSE CompileLoopMiss(cc, patterns, nodes, variadic, i, body,
                                  CompileFragment(nodes[i], variadic))

JsSyntaxError == <<"throw", "SyntaxError", <<"(raised by new Function)", <<>>>>>>

\* The end of compile: after _caches.match.set(matchCacheKey, fn).
CompileStored(cs, fn, caseFns, st) ==
    [caches |-> [cs EXCEPT !.match = st.cache], diverges |-> st.diverges,
     result |-> IF st.diverges THEN <<"none">> ELSE <<"matcher", fn, caseFns>>]

\* compile after the loop over the patterns returned `loop`: new Function
\* on the generated text, then the match cache.
CompileGenerated(cs, key, variadic, caseFns, loop) ==
    LET cs2 == [cs EXCEPT !.compile = loop.cache]
        fn == [variadic |-> variadic, body |-> loop.result[2], hasDefault |-> loop.result[3]]
    IN  IF loop.diverges \/ loop.result[1] # "ok"
        THEN [caches |-> cs2, diverges |-> loop.diverges, result |-> loop.result]
        ELSE IF \E i \in 1..Len(fn.body) : ~FragmentSyntaxOk(fn.body[i])
        THEN [caches |-> cs2, diverges |-> FALSE, result |-> JsSyntaxError]
        ELSE CompileStored(cs2, fn, caseFns, CacheSet(cs2.match, key, fn))

\* compile after patterns.map(parsePattern) returned `parsed`.
CompileParsed(cs, patterns, key, variadic, caseFns, parsed) ==
    IF parsed.diverges \/ parsed.result[1] # "ok"
    THEN [caches |-> [cs EXCEPT !.parse = parsed.cache], diverges |-> parsed.diverges,
          result |-> parsed.result]
    ELSE CompileGenerated([cs EXCEPT !.parse = parsed.cache], key, variadic, caseFns,
                          CompileLoop(cs.compile, patterns, parsed.result[2], variadic, 1, <<>>))

\* compile(cases, variadic) on the caches cs: the caches afterwards, whether
\* the call never returns, and <<"matcher", fn, caseFns>> or the throw.
compile(cs, cases, variadic) ==
    LET patterns == ObjectKeys(cases)
        key == matchCacheKey(patterns, variadic)
        cached == CacheGet(cs.match, key).result
        caseFns == [i \in 1..Len(patterns) |-> HandlerOf(cases, patterns[i])]
    IN  IF cached[1] = "hit"
        THEN [caches |-> cs, diverges |-> FALSE, result |-> <<"matcher", cached[2], caseFns>>]
        ELSE CompileParsed(cs, patterns, key, variadic, caseFns,
                           ParseAll(cs.parse, patterns, 1, <<>>))

\* The handler call a fragment makes: <<"ok", argument list>> or a throw.
RECURSIVE EvalGetters(_, _, _, _), EvalGettersNext(_, _, _, _, _)
EvalGettersNext(getters, i, root, acc, r) ==
    IF r[1] # "ok" THEN r ELSE EvalGetters(getters, i + 1, root, acc \o r[2])

EvalGetters(getters, i, root, acc) ==
    IF i > Len(getters) THEN <<"ok", acc>>
    ELSE EvalGettersNext(getters, i, root, acc, EvalGetter(getters[i], root))

\* { name1: getter1, name2: getter2, ... } from the values of the getters.
NamedArgs(call, named) ==
    IF named[1] # "ok" THEN named
    ELSE <<"ok", <<Obj("Object",
                       AssignAll(<<>>, [i \in 1..Len(call[2]) |->
                                           <<call[2][i][1], named[2][i]>>]))>>>>

CallArgs(call, root) ==
    CASE call[1] = "whole" -> <<"ok", <<root>>>>
      [] call[1] = "positional" -> EvalGetters(call[2], 1, root, <<>>)
      [] call[1] = "object" ->
            NamedArgs(call, EvalGetters([i \in 1..Len(call[2]) |-> call[2][i][2]], 1, root, <<>>))

\* The generated function applied to root with the handlers caseFns, from
\* fragment i: <<"call", handler, arguments>> or a throw.  RunCondition is
\* the `if` on the condition's outcome c, RunCall the handler call on the
\* arguments a.
RECURSIVE RunBody(_, _, _, _), RunCondition(_, _, _, _, _)
RunCall(caseFns, i, a) ==
    IF a[1] # "ok" THEN a
    \* cases[i] is undefined when the function was generated for more cases
    ELSE IF i > Len(caseFns) THEN JsTypeError
    ELSE <<"call", caseFns[i], a[2]>>

RunCondition(fn, caseFns, root, i, c) ==
    IF c = "E" THEN JsTypeError
    ELSE IF c = "F" THEN RunBody(fn, caseFns, root, i + 1)
    ELSE RunCall(caseFns, i, CallArgs(fn.body[i].call, root))

RunBody(fn, caseFns, root, i) ==
    IF i > Len(fn.body) THEN <<"throw", "NonExhaustiveError", root>>
    ELSE RunCondition(fn, caseFns, root, i,
                      IF fn.body[i].default THEN "T" ELSE EvalAnd(fn.body[i].cond, 1, root))

\* The matcher compile() returns, called with the argument list argv.
CallMatcher(fn, caseFns, argv) ==
    RunBody(fn, caseFns,
            IF fn.variadic THEN Arr(argv)
            ELSE IF argv = <<>> THEN Undefined ELSE argv[1],
            1)

(***************************************************************************)
(* src/match.ts: match(value, cases), the interpretive matcher, with the   *)
(* parse of each pattern taken on a cold cache.                            *)
(***************************************************************************)
RECURSIVE MatchCases(_, _, _, _), MatchCaseParsed(_, _, _, _, _), MatchCaseMatched(_, _, _, _, _)

\* The case whose pattern matched (or not) with result m.
MatchCaseMatched(value, cases, patterns, i, m) ==
    IF m[1] = "throw" THEN m
    ELSE IF m[1] = "null" THEN MatchCases(value, cases, patterns, i + 1)
    ELSE <<"call", HandlerOf(cases, patterns[i]), invokeCaseFn(value, m[2])>>

\* The case whose pattern parsed to u.
MatchCaseParsed(value, cases, patterns, i, u) ==
    IF u[1] = "null"
    THEN <<"throw", "TypeError",
           <<"Pattern matching error: Failed to parse pattern: ", patterns[i]>>>>
    ELSE IF u[1] = "throw" THEN u
    ELSE IF checkNode(u[2]) # "ok" THEN <<"throw", "Error", <<checkNode(u[2]), <<>>>>>>
    ELSE MatchCaseMatched(value, cases, patterns, i, matchNode(value, u[2]))

MatchCases(value, cases, patterns, i) ==
    IF i > Len(patterns) THEN <<"throw", "NonExhaustiveError", value>>
    ELSE MatchCaseParsed(value, cases, patterns, i, ParseResults[patterns[i]].result)

match(value, cases) == MatchCases(value, cases, ObjectKeys(cases), 1)

\* matchCase(value, node, onMatch): None, or Some(invokeCaseFn(...)), the call
\* of the handler; MatchCaseOf is the step after matchNode returned m.
MatchCaseOf(value, onMatch, m) ==
    IF m[1] = "throw" THEN m
    ELSE IF m[1] = "null" THEN <<"none">>
    ELSE <<"call", onMatch, invokeCaseFn(value, m[2])>>

matchCase(value, node, onMatch) == MatchCaseOf(value, onMatch, matchNode(value, node))

\* const node = parsePattern(pattern);
\* if (!node) throw new TypeError(`Invalid pattern: ${pattern}`); checkNode(node);
\* on what parsePattern made of the pattern: the node, or the throw.
CheckedNode(pattern, u) ==
    IF u[1] = "null" THEN <<"throw", "TypeError", <<"Invalid pattern: ", pattern>>>>
    ELSE IF u[1] = "throw" THEN u
    ELSE IF checkNode(u[2]) # "ok" THEN <<"throw", "Error", <<checkNode(u[2]), <<>>>>>>
    ELSE u

\* match(cases), the point-free style: every pattern is parsed and checked
\* when the matcher is built; ParsedCases is that loop from pattern i.
RECURSIVE ParsedCases(_, _), ParsedCasesNext(_, _, _)
ParsedCasesNext(patterns, i, n) ==
    IF n[1] = "throw" THEN n ELSE ParsedCases(patterns, i + 1)

ParsedCases(patterns, i) ==
    IF i > Len(patterns) THEN <<"ok">>
    ELSE ParsedCasesNext(patterns, i, CheckedNode(patterns[i], ParseResults[patterns[i]].result))

\* match(cases)(value): a throw while the matcher is built is
\* <<"construct", throw>>; the returned function runs the cases in order.
MatchBuilt(value, cases, built) ==
    IF built[1] = "throw" THEN <<"construct", built>>
    ELSE MatchCases(value, cases, ObjectKeys(cases), 1)

matchPointFree(value, cases) == MatchBuilt(value, cases, ParsedCases(ObjectKeys(cases), 1))

\* ifMatch(value, pattern, fn): the handler's call, or null.
IfMatchResult(result) == IF result = <<"none">> THEN <<"null">> ELSE result

IfMatchOn(value, fn, n) ==
    IF n[1] = "throw" THEN n ELSE IfMatchResult(matchCase(value, n[2], fn))

ifMatch(value, pattern, fn) ==
    IfMatchOn(value, fn, CheckedNode(pattern, ParseResults[pattern].result))

\* matches(value, pattern): !!matchNode(value, node)
MatchesResult(m) == IF m[1] = "throw" THEN m ELSE <<"bool", m[1] = "ok">>

MatchesOn(value, n) == IF n[1] = "throw" THEN n ELSE MatchesResult(matchNode(value, n[2]))

matches(value, pattern) == MatchesOn(value, CheckedNode(pattern, ParseResults[pattern].result))

\* compile(cases)(value) on the caches cs: a throw of compile is
\* <<"construct", throw>>, a compile that never returns <<"hung">>.
CompiledOn(value, r) ==
    IF r.diverges THEN <<"hung">>
    ELSE IF r.result[1] # "matcher" THEN <<"construct", r.result>>
    ELSE CallMatcher(r.result[2], r.result[3], <<value>>)

compiledMatch(cs, value, cases) == CompiledOn(value, compile(cs, cases, FALSE))

\* compile(cases, true)(...argv), as matchArgs(cases)(...argv) runs it.
VariadicOn(argv, r) ==
    IF r.diverges THEN <<"hung">>
    ELSE IF r.result[1] # "matcher" THEN <<"construct", r.result>>
    ELSE CallMatcher(r.result[2], r.result[3], argv)

variadicMatch(cs, argv, cases) == VariadicOn(argv, compile(cs, cases, TRUE))

(***************************************************************************)
(* The library as a program: parsePattern, compile, the returned matcher   *)
(* and setCacheLimit called in any order on the shared caches.             *)
(***************************************************************************)
CACHE_DEFAULT_MAX_SIZE == 10000

CacheTypes == {"parse", "compile", "match"}

FreshCaches == [t \in CacheTypes |-> NewCache(CACHE_DEFAULT_MAX_SIZE)]

One == Num(FALSE, <<"1">>)
Two == Num(FALSE, <<"2">>)
Zero == Num(FALSE, <<"0">>)

\* Argument lists a matcher is called with.
ArgLists == { <<One>>, <<Two>>, <<Zero>>, <<Arr(<<One, Two>>)>>, <<Arr(<<One, Two, Zero>>)>> }

\* A matcher the caller holds: the function compile returned, with the
\* handlers bound to it and the case object it was made from.
Held(m) ==
    [returned |-> m.returned, fn |-> m.fn, caseFns |-> m.caseFns, cases |-> m.cases,
     variadic |-> m.variadic]

NoHeld ==
    [returned |-> FALSE, fn |-> [variadic |-> FALSE, body |-> <<>>, hasDefault |-> FALSE],
     caseFns |-> <<>>, cases |-> <<>>, variadic |-> FALSE]

\* `earlier` is the matcher returned before the last one, which the caller
\* still holds.
NoMatcher ==
    [returned |-> FALSE, fn |-> [variadic |-> FALSE, body |-> <<>>, hasDefault |-> FALSE],
     caseFns |-> <<>>, cases |-> <<>>, variadic |-> FALSE, earlier |-> NoHeld]

\* No entry point has been handed anything.
EntryPoints == {"match", "pointFree", "compiled", "ifMatch", "matches"}

NoTrial == [cases |-> <<>>, value |-> Undefined]

\* What is run on a trial: the entry points, and parsePattern on its own.
Steps == EntryPoints \cup {"parse", "variadic"}

NotRun == [e \in Steps |-> <<"none">>]

\* No object exists.
NoHeap == <<>>

Init ==
    /\ caches = FreshCaches
    /\ hung = FALSE
    /\ matcher = NoMatcher
    /\ last = [op |-> "init", arg |-> <<>>, result |-> <<"none">>, parsed |-> FALSE, checked |-> FALSE]
    /\ seen = [p \in Patterns |-> <<"none">>]
    /\ threw = [c \in Compilations |-> <<"none">>]
    /\ nOps = 0
    /\ trial = NoTrial
    /\ ran = NotRun
    /\ heap = NoHeap
    /\ input = Undefined
    /\ shown = <<"none">>
    /\ cache = NewCache(0)
    /\ cHung = FALSE
    /\ cLast = [op |-> "new", key |-> <<>>, result |-> <<"none">>]
    /\ cHist = <<>>

\* `seen` after a step that leaves the parse cache as pc: an entry that left
\* the cache is marked as evicted.
SeenAfter(sn, pc) ==
    [p \in Patterns |->
        IF sn[p][1] = "node" /\ p \notin DOMAIN pc.data THEN <<"node", sn[p][2], FALSE>>
        ELSE sn[p]]

\* The state after parsePattern(p) went as r says.
ParsePatternDone(p, r) ==
    /\ caches' = [caches EXCEPT !.parse = r.cache]
    /\ hung' = r.diverges
    /\ last' = [op |-> "parse", arg |-> p,
                result |-> IF r.diverges THEN <<"none">> ELSE r.result,
                parsed |-> r.parsed, checked |-> r.checked]
    /\ seen' = SeenAfter(IF ~r.diverges /\ r.result[1] = "node"
                         THEN [seen EXCEPT ![p] = <<"node", r.result[2], TRUE>>]
                         ELSE seen,
                         r.cache)

\* parsePattern(p)
ParsePattern(p) ==
    /\ ~hung
    /\ nOps < MaxOps
    /\ ParsePatternDone(p, parsePattern(caches.parse, p))
    /\ nOps' = nOps + 1
    /\ UNCHANGED <<matcher, threw>>
    /\ UNCHANGED cvars
    /\ UNCHANGED mvars
    /\ UNCHANGED svars

\* Two case objects with the same pattern keys in the same order, compiled
\* in the same mode: they share one match cache key.
SameKeys(casesA, variadicA, casesB, variadicB) ==
    /\ ObjectKeys(casesA) = ObjectKeys(casesB)
    /\ variadicA = variadicB

\* compile as it would be if the function it hands back kept the handlers
\* of the case object compiled before with the same keys.
CompileDoneKeepsHandlers(c, r) ==
    /\ caches' = r.caches
    /\ hung' = r.diverges
    /\ matcher' = IF ~r.diverges /\ r.result[1] = "matcher"
                  THEN [returned |-> TRUE, fn |-> r.result[2],
                        caseFns |-> IF /\ matcher.returned
                                       /\ SameKeys(matcher.cases, matcher.variadic,
                                                   c.cases, c.variadic)
                                    THEN matcher.caseFns ELSE r.result[3],
                        cases |-> c.cases, variadic |-> c.variadic,
                        earlier |-> Held(matcher)]
                  ELSE matcher
    /\ last' = [op |-> "compile", arg |-> c,
                result |-> IF r.diverges THEN <<"none">>
                           ELSE IF r.result[1] = "matcher" THEN <<"matcher">>
                           ELSE r.result,
                parsed |-> FALSE, checked |-> FALSE]
    /\ threw' = IF r.diverges THEN threw
                ELSE [threw EXCEPT ![c] = IF r.result[1] = "throw" THEN r.result
                                           ELSE <<"none">>]
    /\ seen' = SeenAfter(seen, r.caches.parse)

\* The state after compile(c.cases, c.variadic) went as r says.
CompileDone(c, r) ==
    /\ caches' = r.caches
    /\ hung' = r.diverges
    /\ matcher' = IF ~r.diverges /\ r.result[1] = "matcher"
                  THEN [returned |-> TRUE, fn |-> r.result[2], caseFns |-> r.result[3],
                        cases |-> c.cases, variadic |-> c.variadic,
                        earlier |-> Held(matcher)]
                  ELSE matcher
    /\ last' = [op |-> "compile", arg |-> c,
                result |-> IF r.diverges THEN <<"none">>
                           ELSE IF r.result[1] = "matcher" THEN <<"matcher">>
                           ELSE r.result,
                parsed |-> FALSE, checked |-> FALSE]
    /\ threw' = IF r.diverges THEN threw
                ELSE [threw EXCEPT ![c] = IF r.result[1] = "throw" THEN r.result
                                           ELSE <<"none">>]
    /\ seen' = SeenAfter(seen, r.caches.parse)

\* compile(c.cases, c.variadic)
Compile(c) ==
    /\ ~hung
    /\ nOps < MaxOps
    /\ CompileDone(c, compile(caches, c.cases, c.variadic))
    /\ nOps' = nOps + 1
    /\ UNCHANGED cvars
    /\ UNCHANGED mvars
    /\ UNCHANGED svars

\* The matcher returned by the last successful compile, called with argv.
Call(argv) ==
    /\ ~hung
    /\ nOps < MaxOps
    /\ matcher.returned
    /\ last' = [op |-> "call", arg |-> argv,
                result |-> CallMatcher(matcher.fn, matcher.caseFns, argv),
                parsed |-> FALSE, checked |-> FALSE]
    /\ nOps' = nOps + 1
    /\ UNCHANGED <<caches, hung, matcher, seen, threw>>
    /\ UNCHANGED cvars
    /\ UNCHANGED mvars
    /\ UNCHANGED svars

\* The matcher returned before the last one, called with argv.
CallEarlier(argv) ==
    /\ ~hung
    /\ nOps < MaxOps
    /\ matcher.earlier.returned
    /\ last' = [op |-> "callEarlier", arg |-> argv,
                result |-> CallMatcher(matcher.earlier.fn, matcher.earlier.caseFns, argv),
                parsed |-> FALSE, checked |-> FALSE]
    /\ nOps' = nOps + 1
    /\ UNCHANGED <<caches, hung, matcher, seen, threw>>
    /\ UNCHANGED cvars
    /\ UNCHANGED mvars
    /\ UNCHANGED svars

\* setCacheLimit(type, size)
SetCacheLimit(type, size) ==
    /\ ~hung
    /\ nOps < MaxOps
    /\ LET r == CacheSetMaxSize(caches[type], size)
       IN  /\ caches' = [caches EXCEPT ![type] = r.cache]
           /\ hung' = r.diverges
           /\ seen' = SeenAfter(seen, IF type = "parse" THEN r.cache ELSE caches.parse)
    /\ last' = [op |-> "limit", arg |-> <<type, size>>, result |-> <<"none">>,
                parsed |-> FALSE, checked |-> FALSE]
    /\ nOps' = nOps + 1
    /\ UNCHANGED <<matcher, threw>>
    /\ UNCHANGED cvars
    /\ UNCHANGED mvars
    /\ UNCHANGED svars

Next ==
    \/ \E p \in Patterns : ParsePattern(p)
    \/ \E c \in Compilations : Compile(c)
    \/ \E argv \in ArgLists : Call(argv)
    \/ \E argv \in ArgLists : CallEarlier(argv)
    \/ \E type \in CacheTypes, size \in 0..MaxCap : SetCacheLimit(type, size)

Spec == Init /\ [][Next]_vars

(***************************************************************************)
(* The Cache class driven through its interface with arbitrary string      *)
(* keys, the empty string included.                                        *)
(***************************************************************************)
UnitKeys == {<<>>, <<"a">>, <<"b">>, <<"c">>}
UnitValues == {"x", "y"}

CInit ==
    /\ cache \in {NewCache(n) : n \in 0..MaxCap}
    /\ cHung = FALSE
    /\ cLast = [op |-> "new", key |-> <<>>, result |-> <<"none">>]
    /\ cHist = <<>>
    /\ caches = FreshCaches
    /\ hung = FALSE
    /\ matcher = NoMatcher
    /\ last = [op |-> "init", arg |-> <<>>, result |-> <<"none">>, parsed |-> FALSE, checked |-> FALSE]
    /\ seen = [p \in Patterns |-> <<"none">>]
    /\ threw = [c \in Compilations |-> <<"none">>]
    /\ nOps = 0
    /\ trial = NoTrial
    /\ ran = NotRun
    /\ heap = NoHeap
    /\ input = Undefined
    /\ shown = <<"none">>

CSet(k, v) ==
    /\ ~cHung
    /\ Len(cHist) < MaxCacheOps
    /\ LET r == CacheSet(cache, k, v)
       IN  /\ cache' = r.cache
           /\ cHung' = r.diverges
    /\ cLast' = [op |-> "set", key |-> k, result |-> <<"none">>]
    /\ cHist' = Append(cHist, <<"set", k>>)
    /\ UNCHANGED pvars
    /\ UNCHANGED mvars
    /\ UNCHANGED svars

CGet(k) ==
    /\ ~cHung
    /\ LET r == CacheGet(cache, k)
       IN  /\ cache' = r.cache
           /\ cLast' = [op |-> "get", key |-> k, result |-> r.result]
    /\ UNCHANGED <<cHung, cHist>>
    /\ UNCHANGED pvars
    /\ UNCHANGED mvars
    /\ UNCHANGED svars

CSetMaxSize(n) ==
    /\ ~cHung
    /\ Len(cHist) < MaxCacheOps
    /\ LET r == CacheSetMaxSize(cache, n)
       IN  /\ cache' = r.cache
           /\ cHung' = r.diverges
    /\ cLast' = [op |-> "maxSize", key |-> <<>>, result |-> <<"none">>]
    /\ cHist' = Append(cHist, <<"maxSize", n>>)
    /\ UNCHANGED pvars
    /\ UNCHANGED mvars
    /\ UNCHANGED svars

CNext ==
    \/ \E k \in UnitKeys, v \in UnitValues : CSet(k, v)
    \/ \E k \in UnitKeys : CGet(k)
    \/ \E n \in 0..MaxCap : CSetMaxSize(n)

SpecCache == CInit /\ [][CNext]_vars

(***************************************************************************)
(* The matching entry points applied to one cases object and one value:    *)
(* match(value, cases), match(cases)(value), compile(cases)(value),        *)
(* ifMatch(value, pattern, fn) and matches(value, pattern), the last two   *)
(* with the first declared case.  Each is a function of its arguments: it  *)
(* runs on the caches as they are when the module is loaded.               *)
(***************************************************************************)
NegZero == Num(TRUE, <<"0">>)

aKey == <<"a">>
bKey == <<"b">>

\* Values handed to the entry points.
TrialValues ==
    { Zero, NegZero, One,
      Arr(<<>>), Arr(<<One>>), Arr(<<One, Two>>), Arr(<<One, Two, Zero>>),
      Arr(<<One, Arr(<<Two>>)>>),
      Arr(<<Arr(<<One>>)>>), Arr(<<Str(<<"a">>)>>), Arr(<<Null>>),
      \* [{ length: 1 }]
      Arr(<<Obj("Object", <<<<lengthKey, One>>>>)>>),
      Obj("Object", <<>>),
      Obj("Object", <<<<aKey, One>>>>),
      \* { "a?": 1 }
      Obj("Object", <<<<<<"a", "?">>, One>>>>),
      Obj("Object", <<<<aKey, Arr(<<Two>>)>>>>),
      Obj("Object", <<<<aKey, One>>, <<bKey, Two>>>>),
      \* JSON.parse('{"a": 1, "__proto__": 2, "b": 2}')
      Obj("Object", <<<<aKey, One>>, <<protoKey, Two>>, <<bKey, Two>>>>),
      Obj("Object", <<<<tagKey, Str(<<"N", "o", "n", "e">>)>>>>),
      \* { _tag: "Some", _: 2, _0: 1 }
      Obj("Object", <<<<tagKey, Str(<<"S", "o", "m", "e">>)>>, <<<<"_">>, Two>>, <<<<"_", "0">>, One>>>>),
      \* { _tag: "Some", _1: 2, _x: 0, _0: 1 }
      Obj("Object", <<<<tagKey, Str(<<"S", "o", "m", "e">>)>>, <<<<"_", "1">>, Two>>,
                      <<<<"_", "x">>, Zero>>, <<<<"_", "0">>, One>>>>) }

MInit ==
    /\ trial \in [cases : TrialCases, value : TrialValues]
    /\ ran = NotRun
    /\ heap = NoHeap
    /\ input = Undefined
    /\ shown = <<"none">>
    /\ caches = FreshCaches
    /\ hung = FALSE
    /\ matcher = NoMatcher
    /\ last = [op |-> "init", arg |-> <<>>, result |-> <<"none">>, parsed |-> FALSE, checked |-> FALSE]
    /\ seen = [p \in Patterns |-> <<"none">>]
    /\ threw = [c \in Compilations |-> <<"none">>]
    /\ nOps = 0
    /\ cache = NewCache(0)
    /\ cHung = FALSE
    /\ cLast = [op |-> "new", key |-> <<>>, result |-> <<"none">>]
    /\ cHist = <<>>

\* match(value, cases)
RunMatch ==
    /\ ran["match"] = <<"none">>
    /\ ran' = [ran EXCEPT !["match"] = match(trial.value, trial.cases)]
    /\ UNCHANGED trial
    /\ UNCHANGED pvars
    /\ UNCHANGED cvars
    /\ UNCHANGED svars

\* match(cases)(value)
RunPointFree ==
    /\ ran["pointFree"] = <<"none">>
    /\ ran' = [ran EXCEPT !["pointFree"] = matchPointFree(trial.value, trial.cases)]
    /\ UNCHANGED trial
    /\ UNCHANGED pvars
    /\ UNCHANGED cvars
    /\ UNCHANGED svars

\* compile(cases)(value)
RunCompiled ==
    /\ ran["compiled"] = <<"none">>
    /\ ran' = [ran EXCEPT !["compiled"] = compiledMatch(FreshCaches, trial.value, trial.cases)]
    /\ UNCHANGED trial
    /\ UNCHANGED pvars
    /\ UNCHANGED cvars
    /\ UNCHANGED svars

\* ifMatch(value, pattern, fn) with the first declared case
RunIfMatch ==
    /\ ran["ifMatch"] = <<"none">>
    /\ ran' = [ran EXCEPT !["ifMatch"] =
                   ifMatch(trial.value, trial.cases[1][1], trial.cases[1][2])]
    /\ UNCHANGED trial
    /\ UNCHANGED pvars
    /\ UNCHANGED cvars
    /\ UNCHANGED svars

\* matches(value, pattern) with the first declared pattern
RunMatches ==
    /\ ran["matches"] = <<"none">>
    /\ ran' = [ran EXCEPT !["matches"] = matches(trial.value, trial.cases[1][1])]
    /\ UNCHANGED trial
    /\ UNCHANGED pvars
    /\ UNCHANGED cvars
    /\ UNCHANGED svars

\* parsePattern(pattern) with the first declared pattern, on empty caches
RunParse ==
    /\ ran["parse"] = <<"none">>
    /\ ran' = [ran EXCEPT !["parse"] = parsePattern(FreshCaches.parse, trial.cases[1][1]).result]
    /\ UNCHANGED trial
    /\ UNCHANGED pvars
    /\ UNCHANGED cvars
    /\ UNCHANGED svars

\* matchArgs(cases)(...value): the elements of an array value are the
\* arguments
RunVariadic ==
    /\ ran["variadic"] = <<"none">>
    /\ IsArray(trial.value)
    /\ ran' = [ran EXCEPT !["variadic"] = variadicMatch(FreshCaches, trial.value[2], trial.cases)]
    /\ UNCHANGED trial
    /\ UNCHANGED pvars
    /\ UNCHANGED cvars
    /\ UNCHANGED svars

MNext ==
    \/ RunParse
    \/ RunVariadic
    \/ RunMatch
    \/ RunPointFree
    \/ RunCompiled
    \/ RunIfMatch
    \/ RunMatches

SpecMatch == MInit /\ [][MNext]_vars

(***************************************************************************)
(* src/errors.ts: stringify, which renders the rejected value for the      *)
(* message of NonExhaustiveError.                                          *)
(* Objects have identity: the heap maps an object's name to its kind       *)
(* (plain object, array, Map or Set) and its items; an item is a number or *)
(* <<"ref", name>>.  The i-th item of a plain object or a Map is stored    *)
(* under the i-th key of FieldKeys.  A rendering is <<"text", chars>>, or  *)
(* <<"hung">> when the recursion of serialize does not end.                *)
(***************************************************************************)
MaxFields == 2       \* an object of the heap has at most this many items

ObjIds == {"o", "p"}

Kinds == {"Object", "Array", "Map", "Set"}

FieldKeys == << <<"a">>, <<"s", "e", "l", "f">>, <<"b">>, <<"c">> >>

Ref(id) == <<"ref", id>>

Text(chars) == <<"text", chars>>

Hung == <<"hung">>

CircularToken == <<"[", "C", "i", "r", "c", "u", "l", "a", "r", "]">>

\* A test against the direct parent only.
IsParent(ancestors, id) == ancestors # <<>> /\ ancestors[Len(ancestors)] = id

\* `ancestors.indexOf(value) !== -1`
IsAncestor(ancestors, id) == \E i \in 1..Len(ancestors) : ancestors[i] = id

\* A path of distinct objects is no longer than the heap is large: a deeper
\* recursion has an object twice on its path and never ends.
StackLimit == Cardinality(ObjIds) + 1

\* What precedes the rendering of the i-th item: `key: ` in a plain object,
\* `"key" => ` in a Map (the key printed by JSON.stringify), nothing in an
\* array or a Set.
ItemPrefix(kind, i) ==
    CASE kind = "Object" -> FieldKeys[i] \o <<":", " ">>
      [] kind = "Map" -> <<"\"">> \o FieldKeys[i] \o <<"\"", " ", "=", ">", " ">>
      [] OTHER -> <<>>

\* One step of `.map(...).join(", ")`.
JoinStep(kind, i, n, one, rest) ==
    IF one = Hung \/ rest = Hung THEN Hung
    ELSE Text(ItemPrefix(kind, i) \o one[2] \o (IF i < n THEN <<",", " ">> ELSE <<>>) \o rest[2])

\* The text around the joined items.
Wrapped(kind, n, joined) ==
    IF joined = Hung THEN Hung
    ELSE CASE kind = "Array" -> Text(<<"[">> \o joined[2] \o <<"]">>)
           [] kind = "Object" ->
                Text(IF n = 0 THEN <<"{", "}">> ELSE <<"{", " ">> \o joined[2] \o <<" ", "}">>)
           [] OTHER ->
                Text((IF kind = "Map" THEN <<"M", "a", "p">> ELSE <<"S", "e", "t">>)
                     \o <<"(">> \o NatText(n) \o <<")", " ">>
                     \o (IF n = 0 THEN <<"{", "}">> ELSE <<"{", " ">> \o joined[2] \o <<" ", "}">>))

RECURSIVE serialize(_, _, _, _), JoinItems(_, _, _, _, _, _)
\* serialize(value, ancestors), with `depth` frames of the stack left.
serialize(h, value, ancestors, depth) ==
    IF value = Undefined THEN Text(<<"u", "n", "d", "e", "f", "i", "n", "e", "d">>)
    ELSE IF value[1] = "num" THEN Text(NumberToText(value))
    ELSE IF IsAncestor(ancestors, value[2]) THEN Text(CircularToken)
    ELSE IF depth = 0 THEN Hung
    ELSE Wrapped(h[value[2]].kind, Len(h[value[2]].items),
                 JoinItems(h, h[value[2]].kind, h[value[2]].items, 1,
                           Append(ancestors, value[2]), depth - 1))

JoinItems(h, kind, items, i, ancestors, depth) ==
    IF i > Len(items) THEN Text(<<>>)
    ELSE JoinStep(kind, i, Len(items),
                  serialize(h, items[i], ancestors, depth),
                  JoinItems(h, kind, items, i + 1, ancestors, depth))

\* stringify(value) == serialize(value, [])
stringify(h, value) == serialize(h, value, <<>>, StackLimit)

(***************************************************************************)
(* stringify applied to a value over a heap of at most two objects that    *)
(* may refer to themselves and to each other.                              *)
(***************************************************************************)
Targets == {Num(FALSE, <<"1">>)} \cup {Ref(id) : id \in ObjIds}

ItemLists == UNION {[1..n -> Targets] : n \in 0..MaxFields}

\* The values of a Set are distinct.
HeapObjects ==
    {o \in [kind : Kinds, items : ItemLists] :
        o.kind = "Set" => \A i, j \in 1..Len(o.items) : o.items[i] = o.items[j] => i = j}

Heaps == [ObjIds -> HeapObjects]

SInit ==
    /\ heap \in Heaps
    /\ input \in Targets
    /\ shown = <<"none">>
    /\ trial = NoTrial
    /\ ran = NotRun
    /\ caches = FreshCaches
    /\ hung = FALSE
    /\ matcher = NoMatcher
    /\ last = [op |-> "init", arg |-> <<>>, result |-> <<"none">>, parsed |-> FALSE, checked |-> FALSE]
    /\ seen = [p \in Patterns |-> <<"none">>]
    /\ threw = [c \in Compilations |-> <<"none">>]
    /\ nOps = 0
    /\ cache = NewCache(0)
    /\ cHung = FALSE
    /\ cLast = [op |-> "new", key |-> <<>>, result |-> <<"none">>]
    /\ cHist = <<>>

\* new NonExhaustiveError(input): the message is built from stringify(input)
Stringify ==
    /\ shown = <<"none">>
    /\ shown' = stringify(heap, input)
    /\ UNCHANGED <<heap, input>>
    /\ UNCHANGED mvars
    /\ UNCHANGED pvars
    /\ UNCHANGED cvars

SNext == Stringify

SpecShow == SInit /\ [][SNext]_vars

(***************************************************************************)
(* Claims about the Cache class (checked under SpecCache).                 *)
(***************************************************************************)
HistOnlySets == \A i \in 1..Len(cHist) : cHist[i][1] = "set"

HistKeysDistinct ==
    \A i, j \in 1..Len(cHist) : (i # j) => (cHist[i][2] # cHist[j][2])

\* The run so far is: new Cache(N), then N + 1 calls of set with distinct keys.
FilledPastCapacity ==
    /\ HistOnlySets
    /\ HistKeysDistinct
    /\ Len(cHist) = cache.maxSize + 1

\* C2: starting from an empty cache of capacity N, inserting N + 1 distinct
\* keys evicts exactly the first-inserted key: get of it misses, get of each
\* of the other N keys hits.
C2_FifoEvictsFirstInserted ==
    FilledPastCapacity =>
        /\ ~cHung
        /\ CacheGet(cache, cHist[1][2]).result = <<"miss">>
        /\ \A i \in 2..Len(cHist) : CacheGet(cache, cHist[i][2]).result[1] = "hit"

\* C5: Cache.get never changes the cache contents or which entry is evicted
\* next (the queue): eviction is FIFO, not LRU.
C5_GetChangesNothing == [][(cLast'.op = "get") => (cache' = cache)]_vars

\* A get that hits an entry which is not the most recently inserted one,
\* the case where an LRU cache would reorder its queue.
C5_Witness ==
    /\ cLast.op = "get"
    /\ cLast.result[1] = "hit"
    /\ Len(cache.queue) >= 2
    /\ cache.queue[1] = cLast.key

(***************************************************************************)
(* Claims about the library (checked under Spec).                          *)
(***************************************************************************)
AllValid(cases) ==
    \A i \in 1..Len(cases) : ParseResults[cases[i][1]].result[1] = "node"

HasInvalidKey(cases) ==
    \E i \in 1..Len(cases) : ParseResults[cases[i][1]].result[1] # "node"

\* C1: for a case set of valid patterns and any value, the compiled matcher
\* selects the same case and passes the same handler arguments as the
\* interpretive matcher, or both report no match.
C1_CompiledEqualsInterpreted ==
    (last.op = "call" /\ ~matcher.variadic /\ AllValid(matcher.cases)) =>
        last.result = match(IF last.arg = <<>> THEN Undefined ELSE last.arg[1], matcher.cases)

\* C3: every call that stores into a cache or changes a limit returns, and
\* when it returns each of the three caches holds at most maxSize entries.
C3_CachesBounded ==
    /\ ~hung
    /\ \A t \in CacheTypes : CacheSize(caches[t]) <= caches[t].maxSize

\* The keys of the n most recently inserted entries of c (all of them when
\* c holds at most n).
NewestKeys(c, n) ==
    IF n >= CacheSize(c) THEN DOMAIN c.data
    ELSE Range(SubSeq(c.queue, Len(c.queue) - n + 1, Len(c.queue)))

\* C4: setCacheLimit(type, n) returns with exactly the n most recently
\* inserted entries of the named cache left (all of them when there are at
\* most n), and leaves the two other caches as they were.
C4_LimitTakesEffect ==
    [][(last'.op = "limit") =>
          LET t == last'.arg[1]
              n == last'.arg[2]
          IN  /\ ~hung'
              /\ caches'[t].maxSize = n
              /\ DOMAIN caches'[t].data = NewestKeys(caches[t], n)
              /\ \A k \in DOMAIN caches'[t].data : caches'[t].data[k] = caches[t].data[k]
              /\ \A o \in CacheTypes \ {t} : caches'[o] = caches[o]]_vars

\* C6: a parsePattern(p) call made after an earlier one returned a node
\* returns a structurally equal node, and while the entry has not been
\* evicted it runs neither the parser nor the validator.
C6_SecondParseServedFromCache ==
    [][(last'.op = "parse" /\ seen[last'.arg][1] = "node") =>
          /\ ~hung'
          /\ last'.result = <<"node", seen[last'.arg][2]>>
          /\ (seen[last'.arg][3] => (~last'.parsed /\ ~last'.checked))]_vars

\* A second parsePattern call of a pattern whose entry is still cached.
C6_Witness ==
    /\ last.op = "parse"
    /\ last.result[1] = "node"
    /\ ~last.parsed
    /\ seen[last.arg][1] = "node"

\* C7: compile(cases) throws whenever some key of cases is not a valid
\* pattern string, whatever was compiled before.
C7_InvalidPatternThrows ==
    (last.op = "compile" /\ ~hung /\ HasInvalidKey(last.arg.cases)) =>
        last.result[1] = "throw"

\* C8: a parsePattern call that returns null or throws adds nothing to the
\* parse cache, and a compile(cases) that threw throws the same error when
\* it is repeated.
C8_FailuresRepeat ==
    [][/\ (last'.op = "parse" /\ last'.result[1] \in {"null", "throw"}) =>
              caches'.parse = caches.parse
       /\ (last'.op = "compile" /\ ~hung' /\ threw[last'.arg][1] = "throw") =>
              last'.result = threw[last'.arg]]_vars

\* The child nodes of a node, alias targets included.
Children(node) ==
    CASE node[1] \in {"Tuple", "Or"} -> node[2]
      [] node[1] = "Object" -> [i \in 1..Len(node[2]) |-> node[2][i][2]]
      [] node[1] = "UnnamedArg" /\ Len(node) >= 2 -> <<node[2]>>
      [] node[1] = "NamedArg" /\ Len(node) >= 3 -> <<node[3]>>
      [] OTHER -> <<>>

IsCapture(node) ==
    node[1] \in {"UnnamedArg", "NamedArg", "UnnamedSpreadArg", "NamedSpreadArg"}

RECURSIVE ContainsCapture(_)
ContainsCapture(node) ==
    IsCapture(node) \/ \E i \in 1..Len(Children(node)) : ContainsCapture(Children(node)[i])

\* Some Or node of the tree has a variant whose subtree captures an argument.
RECURSIVE OrCaptures(_)
OrCaptures(node) ==
    \/ node[1] = "Or" /\ \E i \in 1..Len(node[2]) : ContainsCapture(node[2][i])
    \/ \E i \in 1..Len(Children(node)) : OrCaptures(Children(node)[i])

\* Some Tuple or Object node of the tree has two or more spread-like children.
RECURSIVE TwoSpreads(_)
TwoSpreads(node) ==
    \/ /\ node[1] \in {"Tuple", "Object"}
       /\ Cardinality({i \in 1..Len(Children(node)) : IncludesSpread(Children(node)[i][1])}) > 1
    \/ \E i \in 1..Len(Children(node)) : TwoSpreads(Children(node)[i])

\* C9: no pattern with an Or node whose variant captures an argument at any
\* depth gets past the validator: parsePattern neither returns nor caches it.
C9_OrNeverCaptures ==
    /\ \A k \in DOMAIN caches.parse.data : ~OrCaptures(caches.parse.data[k])
    /\ (last.op = "parse" /\ last.result[1] = "node") => ~OrCaptures(last.result[2])

\* C10: every Tuple and Object node of every node parsePattern returns or
\* caches has at most one spread-like child.
C10_AtMostOneSpread ==
    /\ \A k \in DOMAIN caches.parse.data : ~TwoSpreads(caches.parse.data[k])
    /\ (last.op = "parse" /\ last.result[1] = "node") => ~TwoSpreads(last.result[2])

(***************************************************************************)
(* Claims about the matching entry points (checked under SpecMatch).       *)
(***************************************************************************)
\* The node of the trial's i-th declared pattern.
TrialNode(i) == ParseResults[trial.cases[i][1]].result[2]

\* The trial has one case, and its pattern parses to a node of this type.
SoleCaseOfType(type) ==
    /\ Len(trial.cases) = 1
    /\ ParseResults[trial.cases[1][1]].result[1] = "node"
    /\ TrialNode(1)[1] = type

HasSpread(elements) == \E i \in 1..Len(elements) : IncludesSpread(elements[i][1])

SpreadAt(elements) == CHOOSE i \in 1..Len(elements) : IncludesSpread(elements[i][1])

\* What an exhaustive entry point does with the verdict m on the sole case:
\* the handler's call on a match, NonExhaustiveError(value) otherwise.
SoleCaseOutcome(m) ==
    IF m[1] = "throw" THEN m
    ELSE IF m[1] = "null" THEN <<"throw", "NonExhaustiveError", trial.value>>
    ELSE <<"call", trial.cases[1][2], invokeCaseFn(trial.value, m[2])>>

\* The captures of the pieces of a pattern merged from left to right.
RECURSIVE MergePieces(_, _, _)
MergePieces(pieces, i, acc) ==
    IF i > Len(pieces) \/ acc[1] # "ok" THEN acc
    ELSE MergePieces(pieces, i + 1, MergeRes(acc[2], pieces[i]))

\* A tuple with p elements before its spread and s after it, on the array
\* v of length L >= p + s: the prefix elements on v[0..p-1], the spread on
\* the slice v[p..L-s-1], the suffix elements on v[L-s..L-1].
SpreadPieces(v, elements) ==
    LET n == Len(elements)
        k == SpreadAt(elements)
        L == Len(v)
    IN  [i \in 1..n |->
            IF i < k THEN matchNode(v[i], elements[i])
            ELSE IF i > k THEN matchNode(v[L - (n - i)], elements[i])
            ELSE IF elements[i][1] = "UnnamedSpreadArg"
                 THEN Matched(<<"arr", <<Arr(SubSeq(v, k, L - (n - k)))>>>>)
            ELSE IF elements[i][1] = "NamedSpreadArg"
                 THEN Matched(<<"obj", <<<<elements[i][2], Arr(SubSeq(v, k, L - (n - k)))>>>>>>)
            ELSE Matched(<<"arr", <<>>>>)]

SpreadVerdict(value, elements) ==
    IF ~IsArray(value) \/ Len(value[2]) < Len(elements) - 1 THEN NoMatch
    ELSE MergePieces(SpreadPieces(value[2], elements), 1, Matched(<<"arr", <<>>>>))

\* C11: a tuple pattern with a spread, p elements before it and s after it,
\* matches an array of length L exactly when L >= p + s, the prefix matches
\* v[0..p-1] and the suffix v[L-s..L-1]; a capturing spread is bound to
\* v[p..L-s-1].
C11_TupleSpreadSlices ==
    (ran["match"] # <<"none">> /\ SoleCaseOfType("Tuple") /\ HasSpread(TrialNode(1)[2])) =>
        ran["match"] = SoleCaseOutcome(SpreadVerdict(trial.value, TrialNode(1)[2]))

\* The trial's sole pattern is an object pattern with the single entry
\* `key?: P`.
SoleOptionalEntry ==
    /\ SoleCaseOfType("Object")
    /\ Len(TrialNode(1)[2]) = 1
    /\ EndsWith(TrialNode(1)[2][1][1], <<"?">>)

TrialOptionalKey == RealKey(TrialNode(1)[2][1][1])

TrialOptionalPattern == TrialNode(1)[2][1][2]

\* Captures of the same shape with every value undefined.
FillUndefined(args) ==
    IF args[1] = "arr" THEN <<"arr", [i \in 1..Len(args[2]) |-> Undefined]>>
    ELSE <<"obj", [i \in 1..Len(args[2]) |-> <<args[2][i][1], Undefined>>]>>

\* If P matches the value w with verdict m, the absent key yields the
\* captures of m, each undefined.
AbsentLike(outcome, m) ==
    (m[1] = "ok") => (outcome = SoleCaseOutcome(Matched(FillUndefined(m[2]))))

\* C12: for an entry `key?: P`, an absent key succeeds and binds every
\* capture a successful match of P produces to undefined, in the same shape;
\* a present key succeeds exactly when the property value matches P.
C12_OptionalKeyShape ==
    (ran["match"] # <<"none">> /\ SoleOptionalEntry /\ IsObjectLike(trial.value)) =>
        IF HasProp(trial.value, TrialOptionalKey)
        THEN ran["match"] = SoleCaseOutcome(matchNode(GetProp(trial.value, TrialOptionalKey),
                                                      TrialOptionalPattern))
        ELSE \A w \in TrialValues : AbsentLike(ran["match"], matchNode(w, TrialOptionalPattern))

\* The verdict of the interpreter's matchNode on the trial's first pattern.
TrialVerdict == matchNode(trial.value, TrialNode(1))

\* The trial has one case, its pattern parses, and both the interpretive
\* match and the compiled matcher have called the handler.
BothCalled ==
    /\ Len(trial.cases) = 1
    /\ ParseResults[trial.cases[1][1]].result[1] = "node"
    /\ ran["match"][1] = "call"
    /\ ran["compiled"][1] = "call"

\* The argument list argv follows the convention for the captures args of a
\* match of value: the whole value alone when there is no capture, one
\* argument per unnamed capture, one object keyed by the names otherwise.
FollowsConvention(argv, value, args) ==
    IF ArgsEmpty(args) THEN argv = <<value>>
    ELSE IF args[1] = "arr" THEN Len(argv) = Len(args[2])
    ELSE /\ Len(argv) = 1
         /\ argv[1][1] = "obj"
         /\ [i \in 1..Len(argv[1][3]) |-> argv[1][3][i][1]] =
                [i \in 1..Len(args[2]) |-> args[2][i][1]]

\* C13: the interpretive match and the compiled matcher call the handler the
\* same way: with the whole value alone when the match has no capture, with
\* the unnamed captures as positional arguments, with one object of the
\* named captures.
C13_CallingConvention ==
    (BothCalled /\ TrialVerdict[1] = "ok") =>
        /\ ran["match"] = SoleCaseOutcome(TrialVerdict)
        /\ FollowsConvention(ran["match"][3], trial.value, TrialVerdict[2])
        /\ FollowsConvention(ran["compiled"][3], trial.value, TrialVerdict[2])

\* Some node of the tree has one of the given types.
RECURSIVE ContainsType(_, _)
ContainsType(node, types) ==
    node[1] \in types \/ \E i \in 1..Len(Children(node)) : ContainsType(Children(node)[i], types)

\* The pattern captures both unnamed and named arguments.
MixesCaptures(node) ==
    /\ ContainsType(node, {"UnnamedArg", "UnnamedSpreadArg"})
    /\ ContainsType(node, {"NamedArg", "NamedSpreadArg"})

\* The i-th declared case of the trial is a pattern that mixes captures.
MixedCase(i) ==
    /\ ParseResults[trial.cases[i][1]].result[1] = "node"
    /\ MixesCaptures(TrialNode(i))

\* C14: a pattern mixing unnamed and named captures is a hard error: no
\* entry point reports a successful match of it, and compile() of a case set
\* that contains it throws at construction.
C14_MixedIsHardError ==
    /\ (Len(trial.cases) = 1 /\ MixedCase(1)) =>
           /\ ran["match"][1] # "call"
           /\ ran["pointFree"][1] # "call"
           /\ ran["ifMatch"][1] # "call"
           /\ ran["matches"] # <<"bool", TRUE>>
    /\ (ran["compiled"] # <<"none">> /\ \E i \in 1..Len(trial.cases) : MixedCase(i)) =>
           ran["compiled"][1] = "construct"

\* The verdict of the interpreter's matchNode on the i-th declared pattern.
CaseVerdict(i) == matchNode(trial.value, TrialNode(i))

\* i is the earliest declared case whose pattern matches the trial's value.
EarliestMatching(i) ==
    /\ \A j \in 1..i : ParseResults[trial.cases[j][1]].result[1] = "node"
    /\ CaseVerdict(i)[1] = "ok"
    /\ \A j \in 1..(i - 1) : CaseVerdict(j)[1] = "null"

\* C15: the handler invoked is that of the earliest declared case whose
\* pattern matches the value, in the interpretive match (both styles) and in
\* the compiled matcher.
C15_FirstDeclaredWins ==
    \A i \in 1..Len(trial.cases) :
        EarliestMatching(i) =>
            /\ \A e \in {"match", "pointFree"} :
                   ran[e] # <<"none">> =>
                       ran[e] = <<"call", trial.cases[i][2], invokeCaseFn(trial.value, CaseVerdict(i)[2])>>
            /\ ran["compiled"][1] = "call" => ran["compiled"][2] = trial.cases[i][2]

\* Object.is on two numbers of the model: the same sign and the same
\* magnitude, so that +0 and -0 differ.
SameNumber(a, b) == a[1] = "num" /\ b[1] = "num" /\ a[2] = b[2] /\ a[3] = b[3]

\* The entry point e has run and reported a match of the trial's sole case.
ReportsMatch(e) == ran[e][1] = "call" \/ ran[e] = <<"bool", TRUE>>

\* C17: a number-literal pattern matches exactly the values that are the
\* same value (Object.is) as the number its text denotes, in the interpreter
\* and in the compiled matcher; `0` rejects -0 and `-0` rejects +0.
C17_NumberLiteralSameValue ==
    SoleCaseOfType("NumberLiteral") =>
        \A e \in EntryPoints :
            ran[e] # <<"none">> => (ReportsMatch(e) <=> SameNumber(trial.value, TrialNode(1)[2]))

\* Every declared pattern of the trial is valid and none matches the value.
NoCaseMatches ==
    \A i \in 1..Len(trial.cases) :
        /\ ParseResults[trial.cases[i][1]].result[1] = "node"
        /\ CaseVerdict(i)[1] = "null"

NonExhaustive == <<"throw", "NonExhaustiveError", trial.value>>

\* C16: when no declared case matches, match (both styles) and a compiled
\* matcher throw NonExhaustiveError carrying the value and call no handler;
\* ifMatch returns null and matches returns false, neither throws.
C16_MismatchOutcome ==
    NoCaseMatches =>
        /\ ran["match"] \in {<<"none">>, NonExhaustive}
        /\ ran["pointFree"] \in {<<"none">>, NonExhaustive}
        /\ ran["compiled"][1] # "construct" => ran["compiled"] \in {<<"none">>, NonExhaustive}
        /\ ran["ifMatch"] \in {<<"none">>, <<"null">>}
        /\ ran["matches"] \in {<<"none">>, <<"bool", FALSE>>}

\* A key of the form `_<integer>`: an underscore followed by decimal digits.
IntegerFieldKey(k) == Len(k) >= 2 /\ k[1] = "_" /\ IsNumericText(Drop(k, 1))

\* The values of the `_<integer>` keys of a value by increasing integer.
IntegerFields(value) ==
    LET es == SelectSeq(OwnEntries(value), LAMBDA e : IntegerFieldKey(e[1]))
        nums == {DigitsValue(Drop(es[j][1], 1)) : j \in 1..Len(es)}
        nth(i) == CHOOSE n \in nums : Cardinality({m \in nums : m < n}) = i - 1
    IN  [i \in 1..Cardinality(nums) |->
            es[CHOOSE j \in 1..Len(es) : DigitsValue(Drop(es[j][1], 1)) = nth(i)][2]]

\* The value is an object or function whose `_tag` is the tag.
HasTag(value, tag) ==
    /\ value[1] \in {"obj", "fn"}
    /\ HasProp(value, tagKey)
    /\ GetProp(value, tagKey) = Str(tag)

\* C18: a bare tag pattern matches exactly the object or function values
\* whose `_tag` is the tag, and captures exactly the values of the keys
\* `_<integer>` by increasing integer; `_tag`, `_` and `_x` contribute
\* nothing.
C18_BareTagCaptures ==
    SoleCaseOfType("SugaredADTRoot") =>
        /\ \A e \in EntryPoints : ran[e] # <<"none">> =>
               (ReportsMatch(e) <=> HasTag(trial.value, TrialNode(1)[2]))
        /\ \A e \in {"match", "pointFree", "ifMatch", "compiled"} :
               (ran[e][1] = "call" /\ IntegerFields(trial.value) # <<>>) =>
                   ran[e][3] = IntegerFields(trial.value)

\* The entries of the trial's sole object pattern.
TrialEntries == TrialNode(1)[2]

\* The sole pattern is an object pattern whose only capture is a spread.
SoleSpreadCapture ==
    /\ SoleCaseOfType("Object")
    /\ Cardinality({i \in 1..Len(TrialEntries) :
                       TrialEntries[i][2][1] \in {"UnnamedSpreadArg", "NamedSpreadArg"}}) = 1
    /\ \A i \in 1..Len(TrialEntries) :
           \/ TrialEntries[i][2][1] \in {"UnnamedSpreadArg", "NamedSpreadArg"}
           \/ ~ContainsCapture(TrialEntries[i][2])

\* The keys named by the non-spread entries, the `?` of an optional key
\* dropped.
ClaimedKeys ==
    {RealKey(TrialEntries[i][1]) : i \in {j \in 1..Len(TrialEntries) :
                                             ~IncludesSpread(TrialEntries[j][2][1])}}

\* The plain object of the value's own enumerable properties whose keys are
\* not claimed.
UnclaimedObject(value) ==
    Obj("Object", SelectSeq(OwnEntries(value), LAMBDA e : e[1] \notin ClaimedKeys))

\* The object the spread was bound to, given the handler's arguments.
BoundSpread(argv) ==
    IF \E i \in 1..Len(TrialEntries) : TrialEntries[i][2][1] = "NamedSpreadArg"
    THEN argv[1][3][1][2]
    ELSE argv[1]

\* C19: a capturing spread entry of an object pattern binds a new plain
\* object holding exactly the value's own enumerable keys that no non-spread
\* entry names (optional keys included), each with the value's property.
C19_ObjectSpreadCollects ==
    SoleSpreadCapture =>
        \A e \in {"match", "pointFree", "ifMatch", "compiled"} :
            ran[e][1] = "call" => BoundSpread(ran[e][3]) = UnclaimedObject(trial.value)

\* Some argument node of the tree has a bound sub-pattern.
RECURSIVE ContainsAlias(_)
ContainsAlias(node) ==
    \/ node[1] = "UnnamedArg" /\ Len(node) >= 2
    \/ node[1] = "NamedArg" /\ Len(node) >= 3
    \/ \E i \in 1..Len(Children(node)) : ContainsAlias(Children(node)[i])

\* The captures the stated order prescribes for a pattern of arguments,
\* aliases, tuples and objects without spread, as pairs <<name, value>>
\* ("_" for an unnamed capture): children left to right, the captures of an
\* alias's sub-pattern before the aliased value itself; what lies under an
\* absent optional key is undefined.
RECURSIVE OrderedCaptures(_, _), OrderedFold(_, _, _)
OrderedCaptures(value, node) ==
    CASE node[1] = "UnnamedArg" ->
            (IF Len(node) >= 2 THEN OrderedCaptures(value, node[2]) ELSE <<>>)
                \o <<<<UnnamedName, value>>>>
      [] node[1] = "NamedArg" ->
            (IF Len(node) >= 3 THEN OrderedCaptures(value, node[3]) ELSE <<>>)
                \o <<<<node[2], value>>>>
      [] node[1] = "Tuple" ->
            OrderedFold([i \in 1..Len(node[2]) |->
                            IF IsArray(value) /\ i <= Len(value[2]) THEN value[2][i]
                            ELSE Undefined],
                        node[2], 1)
      [] node[1] = "Object" ->
            OrderedFold([i \in 1..Len(node[2]) |->
                            IF IsObjectLike(value) THEN GetProp(value, RealKey(node[2][i][1]))
                            ELSE Undefined],
                        [i \in 1..Len(node[2]) |-> node[2][i][2]], 1)
      [] OTHER -> <<>>

OrderedFold(values, nodes, i) ==
    IF i > Len(nodes) THEN <<>>
    ELSE OrderedCaptures(values[i], nodes[i]) \o OrderedFold(values, nodes, i + 1)

\* The handler's arguments for the captures cs, all unnamed or all named.
ArgumentsOf(cs) ==
    IF \A i \in 1..Len(cs) : cs[i][1] = UnnamedName
    THEN [i \in 1..Len(cs) |-> cs[i][2]]
    ELSE <<Obj("Object", cs)>>

\* The trial's sole pattern has an alias, neither spread nor Or, and matches
\* the value.
AliasMatched ==
    /\ Len(trial.cases) = 1
    /\ ParseResults[trial.cases[1][1]].result[1] = "node"
    /\ ContainsAlias(TrialNode(1))
    /\ ~ContainsType(TrialNode(1), {"Or", "UnnamedSpreadArg", "NamedSpreadArg", "WildcardSpread"})
    /\ TrialVerdict[1] = "ok"

RECURSIVE TrimEnd(_)
TrimEnd(s) ==
    IF s # <<>> /\ s[Len(s)] \in whitespaces THEN TrimEnd(SubSeq(s, 1, Len(s) - 1)) ELSE s

\* The text ends in a `|` operator without a following term.
DanglingOr(s) == EndsWith(TrimEnd(s), <<"|">>)

\* Texts that are no complete pattern: a second term without an operator,
\* and a tuple that is never closed.
Incomplete == { <<"1", " ", "2">>, <<"[", "1">> }

\* C21: parsePattern returns null, and does not throw, for every text that
\* is not a complete well-formed pattern followed only by whitespace,
\* a text ending in a dangling `|` included.
C21_SyntaxFailureIsNull ==
    (ran["parse"] # <<"none">>
        /\ (DanglingOr(trial.cases[1][1]) \/ trial.cases[1][1] \in Incomplete)) =>
        ran["parse"] = <<"null">>

(***************************************************************************)
(* Claims about the rendering of rejected values (checked under SpecShow). *)
(***************************************************************************)
\* The number of places where the token occurs in the text.
Occurrences(text, token) ==
    Cardinality({i \in 1..Len(text) :
                    i + Len(token) - 1 <= Len(text) /\ SubSeq(text, i, i + Len(token) - 1) = token})

\* The number of references to an ancestor met when the value is walked
\* from `value` below the objects of `path`, each such reference counted
\* and not followed.
RECURSIVE BackReferences(_, _, _), BackReferencesFrom(_, _, _, _)
BackReferences(h, value, path) ==
    IF value[1] # "ref" THEN 0
    ELSE IF value[2] \in path THEN 1
    ELSE BackReferencesFrom(h, h[value[2]].items, 1, path \cup {value[2]})

BackReferencesFrom(h, items, i, path) ==
    IF i > Len(items) THEN 0
    ELSE BackReferences(h, items[i], path) + BackReferencesFrom(h, items, i + 1, path)

\* { a: 1, self: <itself> }
SelfReferring == [kind |-> "Object", items |-> <<Num(FALSE, <<"1">>), Ref("o")>>]

\* C22: rendering the rejected value ends for every value, objects, arrays,
\* Maps and Sets that contain themselves directly or indirectly included;
\* every reference to an ancestor is printed as [Circular] and not
\* descended into; { a: 1, self: <itself> } renders as
\* `{ a: 1, self: [Circular] }`.
C22_CircularRendered ==
    shown # <<"none">> =>
        /\ shown # Hung
        /\ Occurrences(shown[2], CircularToken) = BackReferences(heap, input, {})
        /\ (input = Ref("o") /\ heap["o"] = SelfReferring) =>
               shown = Text(<<"{", " ", "a", ":", " ", "1", ",", " ", "s", "e", "l", "f", ":", " ", "[", "C", "i", "r", "c", "u", "l", "a", "r", "]", " ", "}">>)

\* A Map holding a Set that holds the Map again has been rendered.
C22_Witness ==
    /\ input = Ref("o")
    /\ heap["o"].kind = "Map"
    /\ heap["p"].kind = "Set"
    /\ \E i \in 1..Len(heap["o"].items) : heap["o"].items[i] = Ref("p")
    /\ \E i \in 1..Len(heap["p"].items) : heap["p"].items[i] = Ref("o")
    /\ shown # <<"none">>

(***************************************************************************)
(* Further claims about the entry points (checked under SpecMatch).        *)
(***************************************************************************)
\* The trial's sole pattern is a tuple with an element after its spread.
TupleWithTail ==
    /\ SoleCaseOfType("Tuple")
    /\ HasSpread(TrialNode(1)[2])
    /\ SpreadAt(TrialNode(1)[2]) < Len(TrialNode(1)[2])

\* C23: for a tuple element that follows the spread the compiler produces,
\* in finitely many steps, a path reading the k-th element from the end of
\* the matched array, k being the element's distance from the end of the
\* pattern: compile() returns, and the matcher tests and captures v[L - k].
C23_TailPathCompiles ==
    (TupleWithTail /\ ran["compiled"] # <<"none">>) =>
        /\ ran["compiled"][1] # "construct"
        /\ ran["compiled"] = SoleCaseOutcome(SpreadVerdict(trial.value, TrialNode(1)[2]))

\* The text between the quotes of a pattern that is one quoted string
\* without escapes: the quote, characters other than quote and backslash,
\* the quote.
IsPlainQuoted(s) ==
    /\ Len(s) >= 2
    /\ s[1] \in {"'", "\""}
    /\ s[Len(s)] = s[1]
    /\ \A i \in 2..(Len(s) - 1) : s[i] \notin {s[1], "\\"}

\* C24: manyTill applies its parser only while its end parser does not
\* succeed, so a quoted string literal parses as the StringLiteral of the
\* text between its quotes, the empty text of `''` and `""` included.
C24_EmptyStringLiteral ==
    (ran["parse"] # <<"none">> /\ IsPlainQuoted(trial.cases[1][1])) =>
        ran["parse"] = <<"node", <<"StringLiteral",
                                   SubSeq(trial.cases[1][1], 2, Len(trial.cases[1][1]) - 1)>>>>

\* The reserved words of the grammar: the literal keywords and the names of
\* the typed wildcards.
ReservedWords ==
    { <<"n", "u", "l", "l">>, <<"u", "n", "d", "e", "f", "i", "n", "e", "d">>,
      <<"t", "r", "u", "e">>, <<"f", "a", "l", "s", "e">> } \cup UpperBoundTexts

\* A lower-case identifier of which a reserved word is a proper prefix.
ExtendsReservedWord(s) ==
    /\ s # <<>>
    /\ s[1] \in lowers \cup {"_", "$"}
    /\ \A i \in 1..Len(s) : s[i] \in IdentChars
    /\ \E w \in ReservedWords : Len(w) < Len(s) /\ StartsWith(s, w)

\* C25: an identifier of which a reserved word is only a proper prefix is
\* not read as the reserved word followed by leftover input: as a whole
\* pattern it parses as the NamedArg of the full identifier.
C25_KeywordLongestMatch ==
    (ran["parse"] # <<"none">> /\ ExtendsReservedWord(trial.cases[1][1])) =>
        ran["parse"] = <<"node", <<"NamedArg", trial.cases[1][1]>>>>

\* Every declared pattern of the trial is accepted by parsePattern and none
\* mixes unnamed and named captures.
AllAccepted ==
    \A i \in 1..Len(trial.cases) :
        /\ ParseResults[trial.cases[i][1]].result[1] = "node"
        /\ ~MixesCaptures(TrialNode(i))

\* C26: compile(cases) returns a matcher, it does not throw, for every case
\* set whose patterns parsePattern accepts and which mix no capture kinds,
\* a sub-pattern without runtime condition under an optional key or as an Or
\* variant included.
C26_CompileReturnsMatcher ==
    (ran["compiled"] # <<"none">> /\ AllAccepted) => ran["compiled"][1] # "construct"

\* Some tuple pattern lies below the root of the node.
NestedTuple(node) ==
    \E i \in 1..Len(Children(node)) : ContainsType(Children(node)[i], {"Tuple"})

\* C27: in variadic mode only the outermost tuple pattern skips the is-array
\* test: called with the elements of an array as arguments, the matcher does
\* what the single-value matcher of the same cases does with the array; a
\* non-array argument never matches a nested tuple pattern and raises no
\* error other than NonExhaustiveError.
C27_VariadicNestedTuples ==
    (ran["variadic"] # <<"none">> /\ ran["compiled"] # <<"none">>) =>
        /\ ran["variadic"] = ran["compiled"]
        /\ ran["variadic"][1] = "throw" => ran["variadic"][2] = "NonExhaustiveError"


(***************************************************************************)
(* Claims about matchers sharing a match cache entry (checked under Spec). *)
(***************************************************************************)
\* What a matcher made from `cases` on fresh caches does with argv.
OwnOutcome(cases, variadic, argv) ==
    VariadicOn(argv, compile(FreshCaches, cases, variadic))

\* The last two matchers returned were made from case objects with the
\* same pattern keys in the same order and different handlers.
SharedKeys ==
    /\ matcher.returned
    /\ matcher.earlier.returned
    /\ SameKeys(matcher.cases, matcher.variadic, matcher.earlier.cases, matcher.earlier.variadic)
    /\ matcher.cases # matcher.earlier.cases

\* C28: of two matchers compiled from case objects with the same pattern
\* keys in the same order and different handlers, each one, when called,
\* does what a matcher compiled from its own case object alone does: it
\* invokes the handler its own case object gives the matching pattern.
C28_OwnHandlers ==
    SharedKeys =>
        /\ last.op = "call" =>
              last.result = OwnOutcome(matcher.cases, matcher.variadic, last.arg)
        /\ last.op = "callEarlier" =>
              last.result = OwnOutcome(matcher.earlier.cases, matcher.earlier.variadic, last.arg)

\* The second of two such matchers was served from the match cache and was
\* called on 1: it invoked g, its own handler for `1`, where the first
\* case object has f.
C28_Witness ==
    /\ SharedKeys
    /\ matcher.cases = <<Cases1Other, Cases2Other>>
    /\ matcher.earlier.cases = <<Cases1, Cases2>>
    /\ matchCacheKey(ObjectKeys(matcher.cases), FALSE) \in DOMAIN caches.match.data
    /\ last.op = "call"
    /\ last.arg = <<One>>
    /\ last.result = <<"call", "g", <<One>>>>


\* The trial's one pattern writes an object key as a quoted string whose
\* text ends in `?`.
QuotedKeyEndsInQuestion ==
    /\ Len(trial.cases) = 1
    /\ LET s == trial.cases[1][1]
       IN  \E i \in 1..(Len(s) - 1) : s[i] = "?" /\ s[i + 1] \in {"'", "\""}
    /\ AllAccepted
    /\ TrialNode(1)[1] = "Object"

\* C29: an object pattern whose key is the quoted string `a?` matches only
\* values that have the property `a?`: an entry point that reports a match
\* was given such a value, and a value with the property `a?` equal to the
\* pattern's literal is matched.
C29_QuotedKeyIsRequired ==
    QuotedKeyEndsInQuestion =>
        \A e \in EntryPoints :
            /\ ReportsMatch(e) => HasProp(trial.value, TrialNode(1)[2][1][1])
            /\ (ran[e] # <<"none">> /\ trial.value = Obj("Object", <<<<<<"a", "?">>, One>>>>))
                  => ReportsMatch(e)


(***************************************************************************)
(* Claims about the Cache's queue and map (checked under SpecCache).       *)
(***************************************************************************)
\* The number of times key occurs in queue.
QueueCount(queue, key) == Cardinality({i \in 1..Len(queue) : queue[i] = key})

\* C30: after any sequence of set calls and maxSize changes the eviction
\* queue and the map are consistent: every key stored in the map occurs
\* exactly once in the queue, and every queue entry is a key of the map.
C30_QueueMatchesMap ==
    /\ \A key \in DOMAIN cache.data : QueueCount(cache.queue, key) = 1
    /\ \A i \in 1..Len(cache.queue) : cache.queue[i] \in DOMAIN cache.data

=============================================================================
